---- MODULE Spec2Model ----
(***************************************************************************)
(* Verification model of the egress analytics core:                        *)
(*   CostAnalyzer         (src/src/egress/cost_analysis.py)                *)
(*   AnomalyDetector      (src/src/egress/anomaly_detection.py)            *)
(*   TrendAnalyzer        (src/src/egress/trend_analysis.py)               *)
(*   RecommendationEngine (src/src/egress/recommendation.py)               *)
(*                                                                         *)
(* Units.  Money is counted in thousandths of a currency unit, so the      *)
(* price 0.087 per GB is 87.  Volumes are whole gigabytes.  Confidences    *)
(* are hundredths (0.85 is 85).                                            *)
(***************************************************************************)
EXTENDS Integers, Sequences, FiniteSets, TLC

VARIABLES
    \* ---- CostAnalyzer.calculate_egress_cost ----
    pricing,      \* self.pricing["zones"]: zone -> sequence of tiers
    costPc,       \* "idle" before a call, "done" after calculate_egress_cost returned
    costRegion,   \* the region argument of the last call
    costGb,       \* the gb argument of the last call
    costOut,      \* what the last call computed: [total_cost, billed]
    \* ---- AnomalyDetector._deduplicate_anomalies ----
    dedupPc,      \* "input" while the candidate list is built, "done" after the call
    dedupIn,      \* the anomalies argument
    dedupOut,     \* the returned list
    \* ---- RecommendationEngine: _deduplicate_recommendations, _prioritize_recommendations ----
    max_per_category,      \* self.max_per_category
    max_recommendations,   \* self.max_recommendations
    recPc,        \* "input" while the argument list is built, "done" after the call
    recIn,        \* the recommendations argument
    recOut,       \* the returned list
    \* ---- the analyzers and the engine on a dataset ----
    dataset,            \* the caller's DataFrame: the sequence of its rows
    detection_config,   \* AnomalyDetector.detection_config
    min_data_points,    \* TrendAnalyzer.min_data_points
    now,                \* the wall clock that datetime.utcnow() reads
    anomOut,            \* <<>> before detect_anomalies ran, then <<what the call computed>>
    calls,              \* the analyzer calls made so far: [op, result]
    cost_analysis,      \* <<>>, or <<the dictionary analyze_costs returned>>, which
                        \* the caller passes on to generate_cost_recommendations
    costRecsOut,        \* <<>>, or <<[raised, recommendations]>> of that call
    engOut,             \* <<>>, or <<[raised, result]>> of generate_recommendations
    \* ---- MetricsStorage (local storage) ----
    raw_path,           \* the files metrics_<id>.json of the raw directory: [id, data, mtime]
    clock,              \* the clock of the host that datetime.utcnow() reads, in ticks
    storeOut,           \* the collection ids that the store_metrics calls returned
    listOut,            \* <<>>, or <<the list list_available_collections returned>>
    \* ---- batch_list_generator ----
    pages,              \* what collection_function does, call after call
    batchPc,            \* where the generator stands: "fetch", "iterate" or "done"
    kwargs,             \* the keyword arguments kept between the calls
    fnCalls,            \* the keyword arguments of the calls made so far
    page,               \* the page being iterated: the items not yet yielded
    continuation_token, \* the token of the last page iterated to its end (<<>> is None)
    yielded             \* the items yielded so far

costVars == <<pricing, costPc, costRegion, costGb, costOut>>
dedupVars == <<dedupPc, dedupIn, dedupOut>>
recVars == <<max_per_category, max_recommendations, recPc, recIn, recOut>>

analysisVars ==
    <<dataset, detection_config, min_data_points, now, anomOut, calls, cost_analysis,
      costRecsOut, engOut>>

storageVars == <<raw_path, clock, storeOut, listOut>>
batchVars == <<pages, batchPc, kwargs, fnCalls, page, continuation_token, yielded>>

vars == <<costVars, dedupVars, recVars, analysisVars, storageVars, batchVars>>

-----------------------------------------------------------------------------
(* Bounds of the model *)

MaxTiers == 2        \* finite tiers in front of the unbounded tier
MaxLimit == 3        \* largest limit_gb of a configured finite tier
MaxPrice == 2        \* largest configured price
MaxGb == 7           \* largest volume passed to calculate_egress_cost
MaxCandidates == 4   \* longest list passed to _deduplicate_anomalies
MaxRecs == 4         \* longest list passed to _deduplicate_recommendations
MaxUnique == 3       \* longest list passed to _prioritize_recommendations
MaxPerCat == 2       \* largest configured max_per_category
MaxTotal == 3        \* largest configured max_recommendations
MaxSamples == 5      \* most rows of a dataset
MaxIdemSamples == 3  \* most rows of a dataset on which analyzers are called repeatedly
MaxClock == 1        \* latest reading of the wall clock
MaxCalls == 2        \* most analyzer calls on one dataset
MaxTrendSamples == 3 \* most rows of a dataset given to an analyzer under a configured minimum
MaxAnomalyRecSamples == 6  \* most rows of a dataset whose anomalies are turned into recommendations
MaxCostSamples == 4  \* most rows of a dataset of four resources given to the cost analyzer
MaxPages == 3        \* most calls of the collection function that a run of the generator makes
MaxSpanSamples == 3  \* most rows of a dataset whose rows lie days apart
MaxStores == 3       \* most store_metrics calls on one storage
MaxStorageClock == 5 \* latest reading of the host clock, in ticks
MaxResults == 3      \* largest max_results passed to list_available_collections
MaxWeekSamples == 8  \* most timepoints of a series whose weekly change is reported
MaxProjectSamples == 3     \* most rows of a dataset whose costs are projected
MaxProjectionMonths == 3   \* largest projection_months passed to project_costs

-----------------------------------------------------------------------------
(* Small helpers *)

Min(a, b) == IF a <= b THEN a ELSE b

Abs(x) == IF x < 0 THEN 0 - x ELSE x

RECURSIVE SumSeq(_)
SumSeq(s) == IF s = <<>> THEN 0 ELSE Head(s) + SumSeq(Tail(s))

SeqsUpTo(S, n) == UNION {[1..k -> S] : k \in 0..n}

-----------------------------------------------------------------------------
(* CostAnalyzer: pricing tables *)

\* float('inf') as a limit_gb
Inf == 0 - 1

Tier(l, p) == [limit_gb |-> l, price |-> p]

\* DEFAULT_PRICING["zones"], tiers only
DEFAULT_PRICING ==
    [ zone1 |-> << Tier(10 * 1024, 87), Tier(40 * 1024, 83),
                   Tier(100 * 1024, 70), Tier(Inf, 50) >>,
      zone2 |-> << Tier(10 * 1024, 120), Tier(40 * 1024, 110),
                   Tier(100 * 1024, 80), Tier(Inf, 60) >>,
      zone3 |-> << Tier(10 * 1024, 181), Tier(40 * 1024, 175),
                   Tier(100 * 1024, 170), Tier(Inf, 160) >>,
      default |-> << Tier(Inf, 87) >> ]

\* the regions the model passes; "" stands for a missing region (None or "")
Regions == {"eastus", "EastUS", "japaneast", "brazilsouth", "unknown", "mars", ""}

\* str.lower on the model's regions
Lower(region) == IF region = "EastUS" THEN "eastus" ELSE region

\* DEFAULT_REGION_MAP.get(region, "default") on the model's regions
RegionZone(region) ==
    CASE region = "eastus" -> "zone1"
      [] region = "japaneast" -> "zone2"
      [] region = "brazilsouth" -> "zone3"
      [] OTHER -> "default"

\* the tier tables a configuration may give zone1: finite tiers, then the
\* unbounded one
FiniteTiers == {Tier(l, p) : l \in 1..MaxLimit, p \in 0..MaxPrice}

TierTables ==
    {t \o <<Tier(Inf, p)>> : t \in SeqsUpTo(FiniteTiers, MaxTiers), p \in 0..MaxPrice}

-----------------------------------------------------------------------------
(* CostAnalyzer.calculate_egress_cost *)

\* min(remaining_gb, width) where width may be float('inf')
MinGb(remaining, width) == IF width = Inf THEN remaining ELSE Min(remaining, width)

\* tier["limit_gb"] - previous_limit; inf minus a finite limit is inf
SubLimit(limit, previous_limit) ==
    IF limit = Inf THEN Inf ELSE limit - previous_limit

\* the volume the loop body bills at tier i when remaining_gb is still unbilled
TierGb(tiers, i, remaining) ==
    IF i = 1
    THEN MinGb(remaining, tiers[i].limit_gb)
    ELSE MinGb(remaining, SubLimit(tiers[i].limit_gb, tiers[i - 1].limit_gb))

\* the for loop over the tiers from tier i on; billed collects tier_gb of
\* every tier the loop visited
RECURSIVE WalkTiers(_, _, _, _, _)
WalkTiers(tiers, i, remaining, total, billed) ==
    IF i > Len(tiers)
    THEN [total_cost |-> total, billed |-> billed]
    ELSE LET tier_gb == TierGb(tiers, i, remaining)
             total2 == total + tier_gb * tiers[i].price
             remaining2 == remaining - tier_gb
             billed2 == Append(billed, tier_gb)
         IN IF remaining2 <= 0
            THEN [total_cost |-> total2, billed |-> billed2]
            ELSE WalkTiers(tiers, i + 1, remaining2, total2, billed2)

\* the tiers calculate_egress_cost selects for a region
ZoneTiers(zones, region) ==
    LET r == IF region = "" THEN "unknown" ELSE Lower(region)
    IN zones[RegionZone(r)]

CalcWalk(zones, gb, region) == WalkTiers(ZoneTiers(zones, region), 1, gb, 0, <<>>)

calculate_egress_cost(zones, gb, region) == CalcWalk(zones, gb, region).total_cost

-----------------------------------------------------------------------------
(* Specification SpecCost: a configured zone1 table, then calls of         *)
(* calculate_egress_cost                                                   *)

CostIdle ==
    /\ costPc = "idle"
    /\ costRegion = ""
    /\ costGb = 0
    /\ costOut = [total_cost |-> 0, billed |-> <<>>]

DedupIdle ==
    /\ dedupPc = "idle"
    /\ dedupIn = <<>>
    /\ dedupOut = <<>>

\* RecommendationEngine.__init__ without a "recommendations" configuration
DefaultMaxPerCategory == 5
DefaultMaxRecommendations == 15

RecIdle ==
    /\ max_per_category = DefaultMaxPerCategory
    /\ max_recommendations = DefaultMaxRecommendations
    /\ recPc = "idle"
    /\ recIn = <<>>
    /\ recOut = <<>>

RECURSIVE Gcd(_, _)
Gcd(a, b) == IF b = 0 THEN a ELSE Gcd(b, a % b)

\* dict.get(key, default)
Get(dict, key, default) == IF key \in DOMAIN dict THEN dict[key] ELSE default

\* the rational n / d in lowest terms with a positive denominator (d # 0)
Frac(n, d) ==
    LET g == Gcd(Abs(n), Abs(d))
        sg == IF d < 0 THEN 0 - 1 ELSE 1
    IN [num |-> sg * (n \div g), den |-> sg * (d \div g)]

\* the AnomalyConfig defaults; thresholds are fractions
DefaultAnomalyConfig ==
    [zscore_threshold |-> Frac(3, 1), min_data_points |-> 5,
     mad_threshold |-> Frac(7, 2), moving_avg_window |-> 5,
     peak_detection_threshold |-> Frac(3, 1)]

\* the default of TrendAnalyzer.min_data_points
TrendMinDataPoints == 3

\* an empty raw directory, no call made
StorageIdle ==
    /\ raw_path = {}
    /\ clock = 0
    /\ storeOut = <<>>
    /\ listOut = <<>>

\* no generator created
BatchIdle ==
    /\ pages = <<>>
    /\ batchPc = "done"
    /\ kwargs = <<>>
    /\ fnCalls = <<>>
    /\ page = <<>>
    /\ continuation_token = <<>>
    /\ yielded = <<>>

AnalysisIdle ==
    /\ dataset = <<>>
    /\ detection_config = DefaultAnomalyConfig
    /\ min_data_points = TrendMinDataPoints
    /\ now = 0
    /\ anomOut = <<>>
    /\ calls = <<>>
    /\ cost_analysis = <<>>
    /\ costRecsOut = <<>>
    /\ engOut = <<>>

InitCost ==
    /\ \E t \in TierTables : pricing = [DEFAULT_PRICING EXCEPT !.zone1 = t]
    /\ CostIdle
    /\ StorageIdle
    /\ BatchIdle
    /\ DedupIdle
    /\ RecIdle
    /\ AnalysisIdle

CalculateEgressCost(g, r) ==
    /\ costPc' = "done"
    /\ costGb' = g
    /\ costRegion' = r
    /\ costOut' = CalcWalk(pricing, g, r)
    /\ UNCHANGED <<storageVars, batchVars, pricing, dedupVars, recVars, analysisVars>>

NextCost == \E g \in 0..MaxGb, r \in Regions : CalculateEgressCost(g, r)

SpecCost == InitCost /\ [][NextCost]_vars

-----------------------------------------------------------------------------
(* Claims about calculate_egress_cost *)

\* the tier the GB number n (1-based) lies in when every tier covers its own
\* limit_gb, as the pricing table documents it ("First 10TB", "Next 40TB",
\* "Next 100TB", "Beyond 150TB")
RECURSIVE DocTierOf(_, _, _)
DocTierOf(tiers, i, n) ==
    IF i >= Len(tiers) \/ tiers[i].limit_gb = Inf \/ n <= tiers[i].limit_gb
    THEN i
    ELSE DocTierOf(tiers, i + 1, n - tiers[i].limit_gb)

\* C1: the cost is non-decreasing in gb, has no jump at a tier boundary, and
\* one more GB inside a tier costs exactly that tier's configured price.
C1_CostMonotoneMarginal ==
    costPc = "done" =>
        LET tiers == ZoneTiers(pricing, costRegion)
            more == calculate_egress_cost(pricing, costGb + 1, costRegion)
        IN /\ more >= costOut.total_cost
           /\ more - costOut.total_cost = tiers[DocTierOf(tiers, 1, costGb + 1)].price

\* C2: every tier the walk visits, the second and later ones included, bills
\* the smaller of the volume still unbilled and its own limit_gb, and the walk
\* ends with the whole volume billed.
C2_TierBillsOwnLimit ==
    costPc = "done" =>
        LET tiers == ZoneTiers(pricing, costRegion)
            billed == costOut.billed
        IN /\ \A i \in 1..Len(billed) :
                 billed[i] = MinGb(costGb - SumSeq(SubSeq(billed, 1, i - 1)),
                                   tiers[i].limit_gb)
           /\ SumSeq(billed) = costGb

-----------------------------------------------------------------------------
(* Scores.  A score is a real number held exactly as                       *)
(*   sgn * num / den          (root = FALSE)                               *)
(*   sgn * sqrt(num / den)    (root = TRUE)                                *)
(* with num >= 0, den > 0 and sgn in {-1, 0, 1}.                           *)

Score(sgn, num, den, root) == [sgn |-> sgn, num |-> num, den |-> den, root |-> root]

Sign(x) == IF x > 0 THEN 1 ELSE IF x < 0 THEN 0 - 1 ELSE 0

\* the score x / 10
Tenths(x) == Score(Sign(x), Abs(x), 10, FALSE)

\* the order of the fractions a/b and c/d (a, c >= 0; b, d > 0) as -1, 0, 1,
\* found without multiplying
RECURSIVE CmpFrac(_, _, _, _)
CmpFrac(a, b, c, d) ==
    LET qa == a \div b
        qc == c \div d
        ra == a % b
        rc == c % d
    IN IF qa # qc THEN (IF qa > qc THEN 1 ELSE 0 - 1)
       ELSE IF ra = 0 /\ rc = 0 THEN 0
       ELSE IF ra = 0 THEN 0 - 1
       ELSE IF rc = 0 THEN 1
       ELSE CmpFrac(d, rc, b, ra)

\* the square of abs(score) as a fraction <<numerator, denominator>>
SquareOf(s) ==
    IF s.root THEN <<s.num, s.den>> ELSE <<s.num * s.num, s.den * s.den>>

\* abs(a) > abs(b)
AbsGreater(a, b) ==
    LET qa == SquareOf(a)
        qb == SquareOf(b)
    IN CmpFrac(qa[1], qa[2], qb[1], qb[2]) = 1

-----------------------------------------------------------------------------
(* AnomalyDetector._deduplicate_anomalies *)

\* key = (anomaly.resource_id, anomaly.timestamp, anomaly.metric_name)
AnomalyKey(a) == <<a.resource_id, a.timestamp, a.metric_name>>

\* the comparison turned round
BetterAnomalyFlipped(anomaly, best) == AbsGreater(best.score, anomaly.score)

\* abs(anomaly.score) > abs(best_anomalies[key].score)
BetterAnomaly(anomaly, best) == AbsGreater(anomaly.score, best.score)

\* one pass of the loop body; best is the dict as its values in insertion
\* order (a replaced value keeps the position of its key)
DedupAnomalyStep(best, anomaly) ==
    IF \E i \in 1..Len(best) : AnomalyKey(best[i]) = AnomalyKey(anomaly)
    THEN LET i == CHOOSE j \in 1..Len(best) : AnomalyKey(best[j]) = AnomalyKey(anomaly)
         IN IF BetterAnomaly(anomaly, best[i])
            THEN [best EXCEPT ![i] = anomaly]
            ELSE best
    ELSE Append(best, anomaly)

RECURSIVE DedupAnomalyLoop(_, _)
DedupAnomalyLoop(best, anomalies) ==
    IF anomalies = <<>>
    THEN best
    ELSE DedupAnomalyLoop(DedupAnomalyStep(best, Head(anomalies)), Tail(anomalies))

\* list(best_anomalies.values())
deduplicate_anomalies(anomalies) == DedupAnomalyLoop(<<>>, anomalies)

-----------------------------------------------------------------------------
(* Specification SpecDedup: a list of candidate anomalies is built, then   *)
(* _deduplicate_anomalies is called on it                                  *)

\* the AnomalyResult dataclass
AnomalyResult(rid, name, ts, value, expected, score, alg, metric, sev) ==
    [resource_id |-> rid, resource_name |-> name, timestamp |-> ts,
     value |-> value, expected_value |-> expected, score |-> score,
     algorithm |-> alg, metric_name |-> metric, severity |-> sev]

DedupResources == {"res1", "res2"}
DedupTimestamps == {12, 13}
DedupMetrics == {"m1"}
DedupScores == {Tenths(25), Tenths(30), Tenths(0 - 30)}

Candidates ==
    {AnomalyResult(r, "Unknown", t, 0, 0, s, "zscore", m, "medium") :
        r \in DedupResources, t \in DedupTimestamps, m \in DedupMetrics,
        s \in DedupScores}

InitDedup ==
    /\ pricing = DEFAULT_PRICING
    /\ AnalysisIdle
    /\ CostIdle
    /\ StorageIdle
    /\ BatchIdle
    /\ dedupPc = "input"
    /\ dedupIn = <<>>
    /\ dedupOut = <<>>
    /\ RecIdle

AddCandidate(a) ==
    /\ dedupPc = "input"
    /\ Len(dedupIn) < MaxCandidates
    /\ dedupIn' = Append(dedupIn, a)
    /\ UNCHANGED <<storageVars, batchVars, dedupPc, dedupOut, costVars, recVars, analysisVars>>

DeduplicateAnomalies ==
    /\ dedupPc = "input"
    /\ dedupPc' = "done"
    /\ dedupOut' = deduplicate_anomalies(dedupIn)
    /\ UNCHANGED <<storageVars, batchVars, dedupIn, costVars, recVars, analysisVars>>

NextDedup ==
    \/ \E a \in Candidates : AddCandidate(a)
    \/ DeduplicateAnomalies

SpecDedup == InitDedup /\ [][NextDedup]_vars

-----------------------------------------------------------------------------
(* Claims about _deduplicate_anomalies *)

KeysOf(list) == {AnomalyKey(list[i]) : i \in 1..Len(list)}

-----------------------------------------------------------------------------
(* RecommendationEngine: recommendations and their priority *)

\* a standardized recommendation, with the fields the engine reads
Rec(title, type, severity, confidence, source) ==
    [title |-> title, type |-> type, severity |-> severity,
     confidence |-> confidence, source |-> source]

\* self.severity_weights.get(severity, 0)
SeverityWeight(severity) ==
    CASE severity = "high" -> 3
      [] severity = "medium" -> 2
      [] severity = "low" -> 1
      [] OTHER -> 0

-----------------------------------------------------------------------------
(* RecommendationEngine._deduplicate_recommendations *)

\* the replacement without the tie-break on confidence
ReplacesRecSeverityOnly(rec, existing_rec) ==
    SeverityWeight(rec.severity) > SeverityWeight(existing_rec.severity)

\* the conditions under which unique_recs[title] = rec replaces the entry
ReplacesRec(rec, existing_rec) ==
    \/ SeverityWeight(rec.severity) > SeverityWeight(existing_rec.severity)
    \/ /\ SeverityWeight(rec.severity) = SeverityWeight(existing_rec.severity)
       /\ rec.confidence > existing_rec.confidence

\* one pass of the loop body; unique is the dict unique_recs as its values in
\* insertion order
DedupRecStep(unique, rec) ==
    IF \E i \in 1..Len(unique) : unique[i].title = rec.title
    THEN LET i == CHOOSE j \in 1..Len(unique) : unique[j].title = rec.title
         IN IF ReplacesRec(rec, unique[i])
            THEN [unique EXCEPT ![i] = rec]
            ELSE unique
    ELSE Append(unique, rec)

RECURSIVE DedupRecLoop(_, _)
DedupRecLoop(unique, recommendations) ==
    IF recommendations = <<>>
    THEN unique
    ELSE DedupRecLoop(DedupRecStep(unique, Head(recommendations)),
                      Tail(recommendations))

\* list(unique_recs.values())
deduplicate_recommendations(recommendations) == DedupRecLoop(<<>>, recommendations)

-----------------------------------------------------------------------------
(* RecommendationEngine._prioritize_recommendations *)

\* the sort key (-severity weight, -confidence) of a is smaller than that of b
KeyBefore(a, b) ==
    \/ SeverityWeight(a.severity) > SeverityWeight(b.severity)
    \/ /\ SeverityWeight(a.severity) = SeverityWeight(b.severity)
       /\ a.confidence > b.confidence

\* r put into a sorted list behind every element whose key is not larger
InsertByKey(sorted, r) ==
    LET ahead == {i \in 1..Len(sorted) : ~KeyBefore(r, sorted[i])}
        k == IF ahead = {} THEN 0 ELSE CHOOSE i \in ahead : \A j \in ahead : j <= i
    IN SubSeq(sorted, 1, k) \o <<r>> \o SubSeq(sorted, k + 1, Len(sorted))

\* sorted(recs, key = ...): Python's sort is stable
RECURSIVE SortInto(_, _)
SortInto(sorted, recs) ==
    IF recs = <<>> THEN sorted ELSE SortInto(InsertByKey(sorted, Head(recs)), Tail(recs))

\* the list left in the order of its arrival
SortByPriorityUnsorted(recs) == recs

SortByPriority(recs) == SortInto(<<>>, recs)

\* the keys of categorized_recs in insertion order
RECURSIVE CategoryOrder(_, _)
CategoryOrder(seen, recs) ==
    IF recs = <<>> THEN seen
    ELSE IF \E i \in 1..Len(seen) : seen[i] = Head(recs).type
         THEN CategoryOrder(seen, Tail(recs))
         ELSE CategoryOrder(Append(seen, Head(recs).type), Tail(recs))

\* categorized_recs[category]
RECURSIVE OfCategory(_, _)
OfCategory(recs, category) ==
    IF recs = <<>> THEN <<>>
    ELSE IF Head(recs).type = category
         THEN <<Head(recs)>> \o OfCategory(Tail(recs), category)
         ELSE OfCategory(Tail(recs), category)

\* list[:n] for n >= 0
Slice(list, n) == SubSeq(list, 1, Min(n, Len(list)))

\* the loop extending selected_recs by the whole category
RECURSIVE SelectTopUncapped(_, _, _)
SelectTopUncapped(categories, sorted_recs, per_category) ==
    IF categories = <<>> THEN <<>>
    ELSE OfCategory(sorted_recs, Head(categories))
            \o SelectTopUncapped(Tail(categories), sorted_recs, per_category)

\* the loop that extends selected_recs by recs[:self.max_per_category]
RECURSIVE SelectTop(_, _, _)
SelectTop(categories, sorted_recs, per_category) ==
    IF categories = <<>> THEN <<>>
    ELSE Slice(OfCategory(sorted_recs, Head(categories)), per_category)
            \o SelectTop(Tail(categories), sorted_recs, per_category)

prioritize_recommendations(recommendations, per_category, total) ==
    IF recommendations = <<>>
    THEN <<>>
    ELSE LET sorted_recs == SortByPriority(recommendations)
             selected_recs ==
                 SelectTop(CategoryOrder(<<>>, sorted_recs), sorted_recs, per_category)
         IN Slice(SortByPriority(selected_recs), total)

-----------------------------------------------------------------------------
(* Specification SpecRecDedup: _deduplicate_recommendations on a list;     *)
(* specification SpecPrio: _prioritize_recommendations on a list of        *)
(* recommendations with distinct titles, under a configured pair of caps   *)

Severities == {"high", "medium", "low"}
Confidences == {70, 90}
DupTitles == {"Critical Egress Cost Alert", "Egress Anomalies Detected"}
RecTypes == {"cost", "security"}

InitRecDedup ==
    /\ pricing = DEFAULT_PRICING
    /\ AnalysisIdle
    /\ CostIdle
    /\ StorageIdle
    /\ BatchIdle
    /\ DedupIdle
    /\ max_per_category = DefaultMaxPerCategory
    /\ max_recommendations = DefaultMaxRecommendations
    /\ recPc = "input"
    /\ recIn = <<>>
    /\ recOut = <<>>

AddRecommendation(rec) ==
    /\ recPc = "input"
    /\ Len(recIn) < MaxRecs
    /\ recIn' = Append(recIn, rec)
    /\ UNCHANGED <<storageVars, batchVars, max_per_category, max_recommendations, recPc, recOut,
                   costVars, dedupVars, analysisVars>>

DeduplicateRecommendations ==
    /\ recPc = "input"
    /\ recPc' = "done"
    /\ recOut' = deduplicate_recommendations(recIn)
    /\ UNCHANGED <<storageVars, batchVars, max_per_category, max_recommendations, recIn, costVars, dedupVars,
                   analysisVars>>

NextRecDedup ==
    \/ \E t \in DupTitles, s \in Severities, c \in Confidences :
          AddRecommendation(Rec(t, "cost", s, c, "cost_analyzer"))
    \/ DeduplicateRecommendations

SpecRecDedup == InitRecDedup /\ [][NextRecDedup]_vars

InitPrio ==
    /\ pricing = DEFAULT_PRICING
    /\ AnalysisIdle
    /\ CostIdle
    /\ StorageIdle
    /\ BatchIdle
    /\ DedupIdle
    /\ max_per_category \in 0..MaxPerCat
    /\ max_recommendations \in 0..MaxTotal
    /\ recPc = "input"
    /\ recIn = <<>>
    /\ recOut = <<>>

\* the n-th recommendation of the list carries the title n
AddUnique(type, severity, confidence) ==
    /\ recPc = "input"
    /\ Len(recIn) < MaxUnique
    /\ recIn' = Append(recIn, Rec(Len(recIn) + 1, type, severity, confidence, "cost_analyzer"))
    /\ UNCHANGED <<storageVars, batchVars, max_per_category, max_recommendations, recPc, recOut,
                   costVars, dedupVars, analysisVars>>

PrioritizeRecommendations ==
    /\ recPc = "input"
    /\ recPc' = "done"
    /\ recOut' = prioritize_recommendations(recIn, max_per_category, max_recommendations)
    /\ UNCHANGED <<storageVars, batchVars, max_per_category, max_recommendations, recIn, costVars, dedupVars,
                   analysisVars>>

NextPrio ==
    \/ \E t \in RecTypes, s \in Severities, c \in Confidences : AddUnique(t, s, c)
    \/ PrioritizeRecommendations

SpecPrio == InitPrio /\ [][NextPrio]_vars

-----------------------------------------------------------------------------
(* Claims about _deduplicate_recommendations and _prioritize_recommendations *)

TitlesOf(list) == {list[i].title : i \in 1..Len(list)}

\* C4: the result has pairwise distinct titles, one entry per title of the
\* input; the entry kept for a title is an input with that title, no input
\* with that title has a higher severity weight, and none of the same weight
\* has a higher confidence.
C4_RecDedupKeepsBest ==
    recPc = "done" =>
        /\ TitlesOf(recOut) = TitlesOf(recIn)
        /\ Len(recOut) = Cardinality(TitlesOf(recIn))
        /\ \A i \in 1..Len(recOut) :
              /\ \E j \in 1..Len(recIn) : recIn[j] = recOut[i]
              /\ \A j \in 1..Len(recIn) :
                    recIn[j].title = recOut[i].title => ~KeyBefore(recIn[j], recOut[i])

\* a title given three times: medium first, then high with confidence 0.7,
\* then high with confidence 0.9, and the last one is the entry returned
C4_Witness ==
    /\ recPc = "done"
    /\ Len(recIn) >= 3
    /\ Len(recOut) = 1
    /\ recIn[1].severity = "medium"
    /\ recIn[2].severity = "high" /\ recIn[2].confidence = 70
    /\ recIn[3].severity = "high" /\ recIn[3].confidence = 90
    /\ recOut[1] = recIn[3]

CountType(list, type) == Cardinality({i \in 1..Len(list) : list[i].type = type})

\* C5: the prioritized list is a sub-list of the input (each returned entry
\* is an input entry, none is returned twice), holds at most max_per_category
\* entries of any one type and at most max_recommendations entries.
C5_PrioritizeCaps ==
    recPc = "done" =>
        /\ \A i \in 1..Len(recOut) : \E j \in 1..Len(recIn) : recIn[j] = recOut[i]
        /\ \A i, j \in 1..Len(recOut) : recOut[i].title = recOut[j].title => i = j
        /\ \A t \in RecTypes : CountType(recOut, t) <= max_per_category
        /\ Len(recOut) <= max_recommendations

\* more recommendations of one type than max_per_category allows, a total cap
\* that would let them all through, and the type cut to the per-type cap
C5_Witness ==
    /\ recPc = "done"
    /\ max_per_category = 2
    /\ max_recommendations = 3
    /\ CountType(recIn, "cost") = 3
    /\ CountType(recOut, "cost") = 2

-----------------------------------------------------------------------------
(* The MetricSample dataset.  A dataset is the sequence of its rows; a row  *)
(* holds resource_id, metric_name, timestamp (a day number) and value (in   *)
(* units of 2^30 bytes, so value / (1024 * 1024 * 1024) is the row's value).*)
(* resource_name, resource_type and location are columns that depend on    *)
(* the resource_id alone.                                                   *)

Row(rid, metric, ts, value) ==
    [resource_id |-> rid, metric_name |-> metric, timestamp |-> ts, value |-> value]

\* the resources of the model's datasets in groupby (ascending) order
ResourceIds == <<"lb-c", "vm-a", "vm-d", "web-b">>

ResourceInfo ==
    [r \in {"lb-c", "vm-a", "vm-d", "web-b"} |->
        CASE r = "lb-c" -> [resource_name |-> "lb-c",
                            resource_type |-> "Microsoft.Network/loadBalancers",
                            location |-> "eastus"]
          [] r = "vm-a" -> [resource_name |-> "vm-a",
                            resource_type |-> "Microsoft.Compute/virtualMachines",
                            location |-> "eastus"]
          [] r = "vm-d" -> [resource_name |-> "vm-d",
                            resource_type |-> "Microsoft.Compute/virtualMachines",
                            location |-> "eastus"]
          [] OTHER -> [resource_name |-> "web-b",
                       resource_type |-> "Microsoft.Web/sites",
                       location |-> "japaneast"]]

\* the metric names of the model's datasets in groupby (ascending) order,
\* spelled out for the filter
MetricNames == <<"BytesIn", "BytesOut", "NetworkOut">>

MetricChars(metric) ==
    CASE metric = "BytesOut" -> <<"B", "y", "t", "e", "s", "O", "u", "t">>
      [] metric = "NetworkOut" -> <<"N", "e", "t", "w", "o", "r", "k", "O", "u", "t">>
      [] OTHER -> <<"B", "y", "t", "e", "s", "I", "n">>

\* case folding of a character (case = False)
LowerChar(c) ==
    CASE c = "B" -> "b" [] c = "O" -> "o" [] c = "I" -> "i" [] c = "N" -> "n"
      [] OTHER -> c

\* Series.str.contains(pattern) that tells upper case from lower case
ContainsCase(chars, pattern) ==
    \E i \in 1..(Len(chars) - Len(pattern) + 1) :
        \A k \in 1..Len(pattern) : chars[i + k - 1] = pattern[k]

\* Series.str.contains(pattern, case = False) on one name
ContainsNoCase(chars, pattern) ==
    \E i \in 1..(Len(chars) - Len(pattern) + 1) :
        \A k \in 1..Len(pattern) : LowerChar(chars[i + k - 1]) = pattern[k]

\* the row passes the egress filter: metric_name contains out, sent or egress
IsEgressRow(row) ==
    LET chars == MetricChars(row.metric_name)
    IN \/ ContainsNoCase(chars, <<"o", "u", "t">>)
       \/ ContainsNoCase(chars, <<"s", "e", "n", "t">>)
       \/ ContainsNoCase(chars, <<"e", "g", "r", "e", "s", "s">>)

\* df[...].copy(): the egress rows, in the order of the dataset
EgressRows(df) == SelectSeq(df, IsEgressRow)

\* the values of a column of rows as a sequence
RECURSIVE ValuesOf(_)
ValuesOf(rows) == IF rows = <<>> THEN <<>> ELSE <<Head(rows).value>> \o ValuesOf(Tail(rows))

\* the members of a finite set of integers as an ascending sequence
RECURSIVE Ascending(_)
Ascending(S) ==
    IF S = {} THEN <<>>
    ELSE LET m == CHOOSE x \in S : \A y \in S : x <= y
         IN <<m>> \o Ascending(S \ {m})

\* the largest member of a finite non-empty set of integers
MaxOf(S) == CHOOSE x \in S : \A y \in S : y <= x
MinOf(S) == CHOOSE x \in S : \A y \in S : x <= y

\* a sequence of integers in ascending order
RECURSIVE SortInts(_)
SortInts(x) ==
    IF x = <<>> THEN <<>>
    ELSE LET m == MinOf({x[k] : k \in 1..Len(x)})
             i == CHOOSE k \in 1..Len(x) : x[k] = m
         IN <<m>> \o SortInts(SubSeq(x, 1, i - 1) \o SubSeq(x, i + 1, Len(x)))

-----------------------------------------------------------------------------
(* TrendAnalyzer.analyze_overall_trend *)

\* egress_df.groupby('timestamp')['value'].sum(), sorted by timestamp
OverallByTime(egress) ==
    LET times == Ascending({egress[i].timestamp : i \in 1..Len(egress)})
    IN [k \in 1..Len(times) |->
          SumSeq(ValuesOf(SelectSeq(egress, LAMBDA row : row.timestamp = times[k])))]

\* the numerator and the denominator of the least-squares slope of y over
\* x = 0 .. n-1 (np.polyfit(x, y, 1))
SlopeNum(y) ==
    LET n == Len(y)
        sx == SumSeq([k \in 1..n |-> k - 1])
        sxy == SumSeq([k \in 1..n |-> (k - 1) * y[k]])
    IN n * sxy - sx * SumSeq(y)

SlopeDen(y) ==
    LET n == Len(y)
        sx == SumSeq([k \in 1..n |-> k - 1])
        sxx == SumSeq([k \in 1..n |-> (k - 1) * (k - 1)])
    IN n * sxx - sx * sx

\* normalized_slope = (slope / avg_value) * 100 if avg_value != 0 else 0
NormalizedSlope(y) ==
    IF SumSeq(y) = 0
    THEN Frac(0, 1)
    ELSE Frac(100 * Len(y) * SlopeNum(y), SlopeDen(y) * SumSeq(y))

\* the classification of the normalized slope q (a fraction)
TrendDirectionBySignOnly(q) ==
    IF q.num = 0 THEN "stable"
    ELSE IF q.num > 0 THEN "increasing" ELSE "decreasing"

TrendDirection(q) ==
    IF Abs(q.num) < q.den THEN "stable"
    ELSE IF q.num > 0 THEN "increasing" ELSE "decreasing"

TrendStrength(q) ==
    IF Abs(q.num) < q.den THEN "none"
    ELSE IF Abs(q.num) > 10 * q.den THEN "strong"
    ELSE IF Abs(q.num) > 5 * q.den THEN "moderate"
    ELSE "weak"

\* (last - earlier) / earlier * 100 if earlier != 0 else 0
PercentChange(last, earlier) ==
    IF earlier = 0 THEN Frac(0, 1) ELSE Frac(100 * (last - earlier), earlier)

\* an optional value: <<>> is None
Some(x) == <<x>>

\* overall_by_time['pct_change'].dropna(): the rows whose prev_value is not 0
\* keep a number (x / 0 gives inf or NaN, and inf is replaced by NaN); the
\* result holds the positions k of y that are kept
PctChangeKept(y) == {k \in 2..Len(y) : y[k - 1] # 0}

\* the coefficient of determination of the least-squares line, 0 if
\* ss_total is 0; it does not change when y is scaled, so it is computed on
\* y divided by the common divisor of its values
RECURSIVE GcdSeq(_)
GcdSeq(y) == IF y = <<>> THEN 0 ELSE Gcd(Head(y), GcdSeq(Tail(y)))

RSquared(y) ==
    LET g == GcdSeq(y)
        z == IF g = 0 THEN y ELSE [k \in 1..Len(y) |-> y[k] \div g]
        n == Len(z)
        syy == n * SumSeq([k \in 1..n |-> z[k] * z[k]]) - SumSeq(z) * SumSeq(z)
    IN IF syy = 0 THEN Frac(0, 1)
       ELSE Frac(SlopeNum(z) * SlopeNum(z), SlopeDen(z) * syy)

\* the fields of a successful result that the regression decides: with fewer
\* than 3 points there is no regression and the trend is unknown
Regression(y) ==
    IF Len(y) >= 3
    THEN [direction |-> TrendDirection(NormalizedSlope(y)),
          strength |-> TrendStrength(NormalizedSlope(y)),
          confidence |-> Frac(100 * RSquared(y).num, RSquared(y).den),
          slope |-> Frac(SlopeNum(y), SlopeDen(y)),
          normalized_slope_percent |-> NormalizedSlope(y),
          r_squared |-> RSquared(y)]
    ELSE [direction |-> "unknown", strength |-> "unknown", confidence |-> Frac(0, 1),
          slope |-> Frac(0, 1), normalized_slope_percent |-> Frac(0, 1),
          r_squared |-> Frac(0, 1)]

\* latest_pct_change: the last pct_change that is a number, 0 for one point
LatestPctChange(y) ==
    IF Len(y) > 1
    THEN LET k == MaxOf(PctChangeKept(y)) IN PercentChange(y[k], y[k - 1])
    ELSE Frac(0, 1)

\* a comparison with the value 7 aggregated points before the latest one,
\* which takes 8 points
WeekOverWeekSevenBack(y) ==
    IF Len(y) >= 8 THEN Some(PercentChange(y[Len(y)], y[Len(y) - 7])) ELSE <<>>

\* week_over_week: values.iloc[-1] against values.iloc[-7], None below 7 points
WeekOverWeek(y) ==
    IF Len(y) >= 7 THEN Some(PercentChange(y[Len(y)], y[Len(y) - 6])) ELSE <<>>

analyze_overall_trend(df) ==
    IF df = <<>> THEN [status |-> "no_data"]
    ELSE IF EgressRows(df) = <<>> THEN [status |-> "no_egress_data"]
    ELSE LET y == OverallByTime(EgressRows(df))
             n == Len(y)
         IN IF n < min_data_points
            THEN [status |-> "insufficient_data", data_points |-> n,
                  min_data_points |-> min_data_points]
            ELSE IF n > 1 /\ PctChangeKept(y) = {}
            THEN \* .dropna().iloc[-1] on an empty series: IndexError, caught
                 [status |-> "error", error |-> "IndexError"]
            ELSE [status |-> "success",
                  direction |-> Regression(y).direction,
                  strength |-> Regression(y).strength,
                  confidence |-> Regression(y).confidence,
                  latest_change_percent |-> LatestPctChange(y),
                  slope |-> Regression(y).slope,
                  normalized_slope_percent |-> Regression(y).normalized_slope_percent,
                  r_squared |-> Regression(y).r_squared,
                  min_value |-> MinOf({y[k] : k \in 1..n}),
                  max_value |-> MaxOf({y[k] : k \in 1..n}),
                  current_value |-> y[n],
                  day_over_day_percent |->
                      IF n >= 2 THEN Some(PercentChange(y[n], y[n - 1])) ELSE <<>>,
                  week_over_week_percent |->
                      WeekOverWeek(y),
                  timepoints |-> n]

-----------------------------------------------------------------------------
(* CostAnalyzer.analyze_costs *)

cost_threshold_warning == 100000
cost_threshold_critical == 500000

\* the distinct values of a column in the order groupby yields them
\* (ascending); resource ids and locations are ordered as strings
StringOrder == <<"eastus", "japaneast", "lb-c", "vm-a", "vm-d", "web-b">>

RECURSIVE InOrder(_, _)
InOrder(order, S) ==
    IF order = <<>> THEN <<>>
    ELSE IF Head(order) \in S
         THEN <<Head(order)>> \o InOrder(Tail(order), S)
         ELSE InOrder(Tail(order), S)

\* the EgressCostEstimate list: one entry per (resource_id, resource_name,
\* resource_type, location) group, in groupby order
ResourceCosts(zones, egress) ==
    LET ids == InOrder(StringOrder, {egress[i].resource_id : i \in 1..Len(egress)})
    IN [k \in 1..Len(ids) |->
          LET gb == SumSeq(ValuesOf(SelectSeq(egress, LAMBDA row : row.resource_id = ids[k])))
              info == ResourceInfo[ids[k]]
          IN [resource_id |-> ids[k],
              resource_name |-> info.resource_name,
              resource_type |-> info.resource_type,
              region |-> info.location,
              egress_gb |-> gb,
              cost |-> calculate_egress_cost(zones, gb, info.location)]]

\* region_costs: one entry per location, in groupby order
RegionCosts(zones, egress) ==
    LET locs == InOrder(StringOrder,
                        {ResourceInfo[egress[i].resource_id].location : i \in 1..Len(egress)})
    IN [k \in 1..Len(locs) |->
          LET gb == SumSeq(ValuesOf(SelectSeq(egress,
                             LAMBDA row : ResourceInfo[row.resource_id].location = locs[k])))
          IN [region |-> locs[k],
              egress_gb |-> gb,
              cost |-> calculate_egress_cost(zones, gb, locs[k])]]

RECURSIVE SumCost(_)
SumCost(list) == IF list = <<>> THEN 0 ELSE Head(list).cost + SumCost(Tail(list))

\* (cost / total_cost * 100) if total_cost > 0 else 0
PercentageOfTotal(cost, total_cost) ==
    IF total_cost > 0 THEN Frac(cost * 100, total_cost) ELSE Frac(0, 1)

\* time_delta.days + time_delta.seconds / 86400 between the first and the
\* last timestamp, 0 for a single row
TimePeriodDays(egress) ==
    IF Len(egress) > 1
    THEN LET times == {egress[i].timestamp : i \in 1..Len(egress)}
         IN MaxOf(times) - MinOf(times)
    ELSE 0

\* q > threshold for a fraction q with a positive denominator
FracAbove(q, threshold) == q.num > threshold * q.den

CostStatus(total_cost) ==
    IF total_cost > cost_threshold_critical THEN "critical"
    ELSE IF total_cost > cost_threshold_warning THEN "warning"
    ELSE "normal"

\* a projection warning that does not look at the current cost_status
ProjectionWarningAnyStatus(monthly_cost, cost_status) ==
    IF FracAbove(monthly_cost, cost_threshold_critical) THEN <<"critical">>
    ELSE IF FracAbove(monthly_cost, cost_threshold_warning) THEN <<"warning">>
    ELSE <<>>

\* cost_analysis["projection_warning"], <<>> when the key is not set
ProjectionWarning(monthly_cost, cost_status) ==
    IF FracAbove(monthly_cost, cost_threshold_critical) /\ cost_status # "critical"
    THEN <<"critical">>
    ELSE IF FracAbove(monthly_cost, cost_threshold_warning) /\ cost_status = "normal"
    THEN <<"warning">>
    ELSE <<>>

\* the result of analyze_costs; monthly_projection and projection_warning
\* are <<>> when the key is absent
analyze_costs(zones, df) ==
    IF df = <<>> THEN [status |-> "no_data"]
    ELSE IF EgressRows(df) = <<>> THEN [status |-> "no_egress_data"]
    ELSE LET egress == EgressRows(df)
             total_gb == SumSeq(ValuesOf(egress))
             resource_costs == ResourceCosts(zones, egress)
             region_costs == RegionCosts(zones, egress)
             total_cost == SumCost(resource_costs)
             days == TimePeriodDays(egress)
             monthly ==
                 IF days > 0
                 THEN <<[egress_gb |-> Frac(total_gb * 30, days),
                         cost |-> Frac(total_cost * 30, days)]>>
                 ELSE <<>>
         IN [status |-> "success",
             cost_status |-> CostStatus(total_cost),
             egress_gb |-> total_gb,
             total_cost |-> total_cost,
             time_period_days |-> days,
             resources |->
                 [k \in 1..Len(resource_costs) |->
                     [resource_id |-> resource_costs[k].resource_id,
                      resource_name |-> resource_costs[k].resource_name,
                      resource_type |-> resource_costs[k].resource_type,
                      region |-> resource_costs[k].region,
                      egress_gb |-> resource_costs[k].egress_gb,
                      cost |-> resource_costs[k].cost,
                      percentage_of_total |->
                          PercentageOfTotal(resource_costs[k].cost, total_cost)]],
             by_region |->
                 [k \in 1..Len(region_costs) |->
                     [region |-> region_costs[k].region,
                      egress_gb |-> region_costs[k].egress_gb,
                      cost |-> region_costs[k].cost,
                      percentage_of_total |->
                          PercentageOfTotal(region_costs[k].cost, total_cost)]],
             monthly_projection |-> monthly,
             projection_warning |->
                 IF monthly = <<>> THEN <<>>
                 ELSE ProjectionWarning(monthly[1].cost, CostStatus(total_cost))]

-----------------------------------------------------------------------------
(* CostAnalyzer.project_costs *)

FracTimes(a, b) == Frac(a.num * b.num, a.den * b.den)
FracPlus(a, b) == Frac(a.num * b.den + b.num * a.den, a.den * b.den)

\* q ** n for an integer n >= 0 (q ** 0 is 1, also for q = 0)
RECURSIVE FracPower(_, _)
FracPower(q, n) == IF n = 0 THEN Frac(1, 1) ELSE FracTimes(q, FracPower(q, n - 1))

\* a multiplier that compounds the trend in the first month already
TrendMultiplierFromFirstMonth(trend_factor, month) ==
    FracPower(Frac(100 + trend_factor, 100), month)

\* (1 + trend_factor/100) ** (month - 1)
TrendMultiplier(trend_factor, month) ==
    FracPower(Frac(100 + trend_factor, 100), month - 1)

\* monthly_gb and monthly_cost: the monthly projection of the analysis, or
\* its totals normalised to 30 days
MonthlyValues(analysis) ==
    IF analysis.monthly_projection # <<>>
    THEN analysis.monthly_projection[1]
    ELSE LET days == Get(analysis, "time_period_days", 30)
             time_period == IF days <= 0 THEN 30 ELSE days
         IN [egress_gb |-> Frac(Get(analysis, "egress_gb", 0) * 30, time_period),
             cost |-> Frac(Get(analysis, "total_cost", 0) * 30, time_period)]

\* the loop over range(1, projection_months + 1), entered at month with the
\* projections and the cumulative cost so far
RECURSIVE ProjectMonths(_, _, _, _, _, _)
ProjectMonths(projections, cumulative_cost, month, projection_months, monthly, trend_factor) ==
    IF month > projection_months
    THEN [total_projected_cost |-> cumulative_cost, monthly_projections |-> projections]
    ELSE LET month_cost == FracTimes(monthly.cost, TrendMultiplier(trend_factor, month))
             cumulative == FracPlus(cumulative_cost, month_cost)
         IN ProjectMonths(Append(projections,
                                 [month |-> month,
                                  egress_gb |-> FracTimes(monthly.egress_gb,
                                                          TrendMultiplier(trend_factor, month)),
                                  cost |-> month_cost,
                                  cumulative_cost |-> cumulative]),
                          cumulative, month + 1, projection_months, monthly, trend_factor)

project_costs(analysis, projection_months, trend_factor) ==
    IF analysis.status # "success"
    THEN [status |-> "error", message |-> "Invalid cost analysis data"]
    ELSE LET monthly == MonthlyValues(analysis)
             loop == ProjectMonths(<<>>, Frac(0, 1), 1, projection_months, monthly,
                                   trend_factor)
         IN [status |-> "success",
             base_monthly_cost |-> monthly.cost,
             base_monthly_gb |-> monthly.egress_gb,
             trend_factor_percent |-> trend_factor,
             total_projected_cost |-> loop.total_projected_cost,
             monthly_projections |-> loop.monthly_projections]

-----------------------------------------------------------------------------
(* CostAnalyzer.generate_cost_recommendations *)

\* list.sort(key = cost, reverse = True): stable, the larger cost first
RECURSIVE SortByCostDesc(_, _)
SortByCostDesc(sorted, list) ==
    IF list = <<>> THEN sorted
    ELSE LET r == Head(list)
             ahead == {i \in 1..Len(sorted) : sorted[i].cost >= r.cost}
             k == IF ahead = {} THEN 0 ELSE MaxOf(ahead)
         IN SortByCostDesc(SubSeq(sorted, 1, k) \o <<r>> \o SubSeq(sorted, k + 1, Len(sorted)),
                           Tail(list))


\* what resources.sort(...) leaves in cost_analysis["resources"]
SortResourcesInPlace(resources) == SortByCostDesc(<<>>, resources)

\* "virtualmachine" in resource_type.lower(), "site" in resource_type.lower()
TypeKind(resource_type) ==
    CASE resource_type = "Microsoft.Compute/virtualMachines" -> "virtualmachine"
      [] resource_type = "Microsoft.Web/sites" -> "site"
      [] OTHER -> "other"

\* a recommendation dict of the cost analyzer; resource_id is <<>> when the
\* key is absent
CostRec(type, severity, title, savings, resource_id) ==
    [type |-> type, severity |-> severity, title |-> title,
     potential_savings |-> savings, resource_id |-> resource_id]

\* q >= threshold for a fraction q with a positive denominator
FracAtLeast(q, threshold) == q.num >= threshold * q.den

StatusRecs(analysis) ==
    IF analysis.cost_status = "critical"
    THEN <<CostRec("cost", "high", <<"Critical Egress Cost Alert">>,
                   Frac(analysis.total_cost * 3, 10), <<>>)>>
    ELSE IF analysis.cost_status = "warning"
    THEN <<CostRec("cost", "medium", <<"High Egress Cost Warning">>,
                   Frac(analysis.total_cost * 2, 10), <<>>)>>
    ELSE <<>>

\* the loop over resources[:3]
RECURSIVE ResourceRecs(_)
ResourceRecs(top) ==
    IF top = <<>> THEN <<>>
    ELSE LET resource == Head(top)
             kind == TypeKind(resource.resource_type)
             here ==
                 IF ~FracAtLeast(resource.percentage_of_total, 15) THEN <<>>
                 ELSE IF kind = "virtualmachine"
                 THEN <<CostRec("resource_specific", "medium",
                                <<"High VM Egress: ", resource.resource_name>>,
                                Frac(resource.cost * 4, 10), <<resource.resource_id>>)>>
                 ELSE IF kind = "site"
                 THEN <<CostRec("resource_specific", "medium",
                                <<"High App Service Egress: ", resource.resource_name>>,
                                Frac(resource.cost * 5, 10), <<resource.resource_id>>)>>
                 ELSE <<>>
         IN here \o ResourceRecs(Tail(top))

\* the region block divides by total_cost when there are several regions
RegionBlockRaises(analysis) ==
    Len(analysis.by_region) > 1 /\ analysis.total_cost = 0

RegionRecs(analysis) ==
    IF Len(analysis.by_region) <= 1 THEN <<>>
    ELSE LET region_items == SortByCostDesc(<<>>, analysis.by_region)
             top == region_items[1]
             cross ==
                 IF 10 * region_items[2].cost > 2 * analysis.total_cost
                 THEN <<CostRec("region", "medium", <<"Significant Cross-Region Traffic">>,
                                Frac(analysis.total_cost * 15, 100), <<>>)>>
                 ELSE <<>>
             consolidate ==
                 IF top.region # "unknown" /\ FracAbove(top.percentage_of_total, 70)
                 THEN <<CostRec("region", "low", <<"Consider Consolidation to ", top.region>>,
                                Frac(analysis.total_cost * 8, 100), <<>>)>>
                 ELSE <<>>
         IN cross \o consolidate

\* a recommendation for every projection above the current cost
ProjectionRecsAnyGrowth(analysis) ==
    IF analysis.monthly_projection = <<>> THEN <<>>
    ELSE LET monthly_cost == analysis.monthly_projection[1].cost
         IN IF monthly_cost.num > analysis.total_cost * monthly_cost.den
            THEN <<CostRec("projection", "medium", <<"Increasing Cost Trend Detected">>,
                           Frac(monthly_cost.num * 25, monthly_cost.den * 100), <<>>)>>
            ELSE <<>>

ProjectionRecs(analysis) ==
    IF analysis.monthly_projection = <<>> THEN <<>>
    ELSE LET monthly_cost == analysis.monthly_projection[1].cost
         IN IF 10 * monthly_cost.num > 13 * analysis.total_cost * monthly_cost.den
            THEN <<CostRec("projection", "medium", <<"Increasing Cost Trend Detected">>,
                           Frac(monthly_cost.num * 25, monthly_cost.den * 100), <<>>)>>
            ELSE <<>>

GeneralRec(analysis) ==
    CostRec("general", "low", <<"General Cost Optimization">>,
            Frac(analysis.total_cost, 10), <<>>)

\* the call: raised is <<>> when it returns, recommendations is the returned
\* list, analysis is the argument as the call leaves it
generate_cost_recommendations(analysis) ==
    IF analysis.status # "success"
    THEN [raised |-> <<>>, recommendations |-> <<>>, analysis |-> analysis]
    ELSE LET sorted == SortResourcesInPlace(analysis.resources)
             after == [analysis EXCEPT !.resources = sorted]
         IN IF RegionBlockRaises(analysis)
            THEN [raised |-> <<"ZeroDivisionError">>, recommendations |-> <<>>,
                  analysis |-> after]
            ELSE LET specific == StatusRecs(analysis)
                                    \o ResourceRecs(SubSeq(sorted, 1, Min(3, Len(sorted))))
                                    \o RegionRecs(analysis)
                                    \o ProjectionRecs(analysis)
                 IN [raised |-> <<>>,
                     recommendations |->
                         IF specific = <<>> THEN <<GeneralRec(analysis)>> ELSE specific,
                     analysis |-> after]

-----------------------------------------------------------------------------
(* AnomalyDetector: configuration and the three scorers.  Every scorer     *)
(* works on one (resource_id, resource_name) / metric_name group.  The     *)
(* scores do not change when all values of a group are scaled, so they are *)
(* computed on the values divided by their common divisor.                 *)

\* threshold * m for a fraction threshold and a factor m = mn / md, as a score
TimesThreshold(threshold, mn, md) ==
    LET q == Frac(threshold.num * mn, threshold.den * md)
    IN Score(1, q.num, q.den, FALSE)

\* the bands 2 and 1.2 taken as they are, not as multiples of the threshold
SeverityOfUnscaled(score, threshold) ==
    IF AbsGreater(score, Score(1, 2, 1, FALSE)) THEN "high"
    ELSE IF ~AbsGreater(score, Score(1, 12, 10, FALSE)) THEN "low"
    ELSE "medium"

\* abs(score) > threshold * 2 gives high, abs(score) <= threshold * 1.2 low
SeverityOf(score, threshold) ==
    IF AbsGreater(score, TimesThreshold(threshold, 2, 1)) THEN "high"
    ELSE IF ~AbsGreater(score, TimesThreshold(threshold, 12, 10)) THEN "low"
    ELSE "medium"

\* abs(score) > threshold
Flagged(score, threshold) == AbsGreater(score, TimesThreshold(threshold, 1, 1))

\* the rows of a resource, whatever their metric
GroupRowsAnyMetric(egress, rid, metric) ==
    SelectSeq(egress, LAMBDA row : row.resource_id = rid)

\* the rows of one group, in dataset order
GroupRows(egress, rid, metric) ==
    SelectSeq(egress, LAMBDA row : row.resource_id = rid /\ row.metric_name = metric)

\* the groups in groupby order: resource by resource, metric by metric
GroupKeys(egress) ==
    LET pairs == [i \in 1..(Len(ResourceIds) * Len(MetricNames)) |->
                     <<ResourceIds[((i - 1) \div Len(MetricNames)) + 1],
                       MetricNames[((i - 1) % Len(MetricNames)) + 1]>>]
    IN SelectSeq(pairs, LAMBDA g : GroupRows(egress, g[1], g[2]) # <<>>)

\* the values of a group divided by their common divisor
Reduced(x) ==
    LET g == GcdSeq(x)
    IN IF g = 0 THEN x ELSE [k \in 1..Len(x) |-> x[k] \div g]

SumSquares(x) == SumSeq([k \in 1..Len(x) |-> x[k] * x[k]])

\* n * n * (n - 1) / n times the sample variance: zero exactly when std is 0
VarianceTerm(x) == Len(x) * SumSquares(x) - SumSeq(x) * SumSeq(x)

\* a score sgn * sqrt(num / den) in lowest terms
RootScore(sgn, num, den) ==
    LET q == Frac(num, den) IN Score(sgn, q.num, q.den, TRUE)

\* a score num / den in lowest terms
RatioScore(num, den) ==
    LET q == Frac(Abs(num), den) IN Score(Sign(num), q.num, q.den, FALSE)

\* (value - mean) / std of the k-th value
ZScore(x, k) ==
    LET n == Len(x)
        dev == n * x[k] - SumSeq(x)
    IN RootScore(Sign(dev), dev * dev * (n - 1), n * VarianceTerm(x))

\* the group is skipped: too few points, or std_val == 0; the std of a
\* single value is NaN, which flags nothing
ZScoreSkips(x, config) ==
    \/ Len(x) < config.min_data_points
    \/ Len(x) < 2
    \/ VarianceTerm(x) = 0

\* the anomalies of one group, row by row; scores and expected hold the
\* score and the expected value of every row
RECURSIVE ScoreRows(_, _, _, _, _, _)
ScoreRows(rows, k, scores, expected, algorithm, threshold) ==
    IF k > Len(rows) THEN <<>>
    ELSE LET here ==
                 IF Flagged(scores[k], threshold)
                 THEN <<AnomalyResult(rows[k].resource_id,
                                      ResourceInfo[rows[k].resource_id].resource_name,
                                      rows[k].timestamp, rows[k].value, expected[k],
                                      scores[k], algorithm, rows[k].metric_name,
                                      SeverityOf(scores[k], threshold))>>
                 ELSE <<>>
         IN here \o ScoreRows(rows, k + 1, scores, expected, algorithm, threshold)

ZScoreGroup(rows, config) ==
    LET x == Reduced(ValuesOf(rows))
        mean == Frac(SumSeq(ValuesOf(rows)), Len(rows))
    IN IF ZScoreSkips(x, config) THEN <<>>
       ELSE ScoreRows(rows, 1, [k \in 1..Len(x) |-> ZScore(x, k)],
                      [k \in 1..Len(x) |-> mean], "zscore", config.zscore_threshold)

\* twice the median of a sequence of integers
Median2(x) ==
    LET n == Len(x)
        sorted == SortInts(x)
    IN IF n % 2 = 1 THEN 2 * sorted[(n + 1) \div 2]
       ELSE sorted[n \div 2] + sorted[(n \div 2) + 1]

\* four times np.median(abs(value - median))
Mad4(x) == Median2([k \in 1..Len(x) |-> Abs(2 * x[k] - Median2(x))])

\* 0.6745 * (value - median) / mad of the k-th value; 0.6745 = 1349 / 2000
MadScore(x, k) == RatioScore(1349 * (2 * x[k] - Median2(x)), 1000 * Mad4(x))

MadSkips(x, config) ==
    \/ Len(x) < config.min_data_points
    \/ Mad4(x) = 0

MadGroup(rows, config) ==
    LET x == Reduced(ValuesOf(rows))
        median == Frac(Median2(ValuesOf(rows)), 2)
    IN IF MadSkips(x, config) THEN <<>>
       ELSE ScoreRows(rows, 1, [k \in 1..Len(x) |-> MadScore(x, k)],
                      [k \in 1..Len(x) |-> median], "mad", config.mad_threshold)

\* metric_df.sort_values('timestamp'): a stable sort
RECURSIVE SortByTimestamp(_, _)
SortByTimestamp(sorted, rows) ==
    IF rows = <<>> THEN sorted
    ELSE LET r == rows[1]
             before == SelectSeq(sorted, LAMBDA s : s.timestamp <= r.timestamp)
             after == SelectSeq(sorted, LAMBDA s : s.timestamp > r.timestamp)
         IN SortByTimestamp(before \o <<r>> \o after, SubSeq(rows, 2, Len(rows)))

\* the sum of the window that ends at the k-th value
WindowSum(x, k, window) == SumSeq(SubSeq(x, k - window + 1, k))

\* window * (value - moving_avg) for the values that have a moving average
WindowDiffs(x, window) ==
    [j \in 1..(Len(x) - window + 1) |->
        window * x[j + window - 1] - WindowSum(x, j + window - 1, window)]

\* (value - moving_avg) / diffs.std() of the k-th value (k >= window)
MaScore(x, k, window) ==
    LET d == WindowDiffs(x, window)
        dk == d[k - window + 1]
    IN RootScore(Sign(dk), dk * dk * Len(d) * (Len(d) - 1), VarianceTerm(d))

MovingAvgSkips(x, config) ==
    \/ Len(x) < config.moving_avg_window + 2
    \/ VarianceTerm(WindowDiffs(x, config.moving_avg_window)) = 0

MovingAvgGroup(rows, config) ==
    LET window == config.moving_avg_window
        sorted == SortByTimestamp(<<>>, rows)
        x == Reduced(ValuesOf(sorted))
        with_avg == SubSeq(sorted, window, Len(sorted))
    IN IF MovingAvgSkips(x, config) THEN <<>>
       ELSE ScoreRows(with_avg, 1,
                      [j \in 1..Len(with_avg) |-> MaScore(x, j + window - 1, window)],
                      [j \in 1..Len(with_avg) |->
                          Frac(WindowSum(ValuesOf(sorted), j + window - 1, window), window)],
                      "moving_average", config.peak_detection_threshold)

\* one scorer applied to every group, in groupby order
RECURSIVE OverGroups(_, _, _, _)
OverGroups(egress, keys, algorithm, config) ==
    IF keys = <<>> THEN <<>>
    ELSE LET rows == GroupRows(egress, keys[1][1], keys[1][2])
             found == CASE algorithm = "zscore" -> ZScoreGroup(rows, config)
                        [] algorithm = "mad" -> MadGroup(rows, config)
                        [] OTHER -> MovingAvgGroup(rows, config)
         IN found \o OverGroups(egress, SubSeq(keys, 2, Len(keys)), algorithm, config)

detect_zscore_anomalies(egress, config) ==
    OverGroups(egress, GroupKeys(egress), "zscore", config)

detect_mad_anomalies(egress, config) ==
    OverGroups(egress, GroupKeys(egress), "mad", config)

detect_moving_avg_anomalies(egress, config) ==
    OverGroups(egress, GroupKeys(egress), "moving_average", config)

-----------------------------------------------------------------------------
(* AnomalyDetector.detect_anomalies and generate_anomaly_recommendations *)

\* AnomalyResult._calculate_deviation_percent; inf marks float('inf')
DeviationPercent(a) ==
    IF a.expected_value.num = 0
    THEN [inf |-> a.value > 0, q |-> Frac(0, 1)]
    ELSE [inf |-> FALSE,
          q |-> Frac(100 * (a.value * a.expected_value.den - a.expected_value.num),
                     Abs(a.expected_value.num))]

\* AnomalyResult.to_dict
ToDict(a) ==
    [resource_id |-> a.resource_id, resource_name |-> a.resource_name,
     timestamp |-> a.timestamp, value |-> a.value,
     expected_value |-> a.expected_value, score |-> a.score,
     algorithm |-> a.algorithm, metric_name |-> a.metric_name,
     severity |-> a.severity, deviation_percent |-> DeviationPercent(a)]

\* unique_anomalies.sort(key=lambda x: abs(x.score), reverse=True): stable
RECURSIVE SortByAbsScore(_, _)
SortByAbsScore(sorted, list) ==
    IF list = <<>> THEN sorted
    ELSE LET a == list[1]
             before == SelectSeq(sorted, LAMBDA s : ~AbsGreater(a.score, s.score))
             after == SelectSeq(sorted, LAMBDA s : AbsGreater(a.score, s.score))
         IN SortByAbsScore(before \o <<a>> \o after, SubSeq(list, 2, Len(list)))

\* the resource ids of a list in order of first appearance
RECURSIVE FirstSeen(_, _)
FirstSeen(seen, list) ==
    IF list = <<>> THEN seen
    ELSE FirstSeen(IF \E k \in 1..Len(seen) : seen[k] = list[1].resource_id
                   THEN seen ELSE Append(seen, list[1].resource_id),
                   SubSeq(list, 2, Len(list)))

\* resource_anomalies: one entry per resource, in order of first appearance
ByResource(dicts) ==
    LET order == FirstSeen(<<>>, dicts)
    IN [k \in 1..Len(order) |->
           [resource_id |-> order[k],
            anomalies |-> SelectSeq(dicts, LAMBDA d : d.resource_id = order[k])]]

\* a count that does not look at the severity
CountSeverityOfAll(list, severity) == Len(list)

CountSeverity(list, severity) ==
    Len(SelectSeq(list, LAMBDA a : a.severity = severity))

detect_anomalies(df, config, utcnow) ==
    LET egress == EgressRows(df)
        zscore_anomalies == detect_zscore_anomalies(egress, config)
        mad_anomalies == detect_mad_anomalies(egress, config)
        moving_avg_anomalies == detect_moving_avg_anomalies(egress, config)
        all_anomalies == zscore_anomalies \o mad_anomalies \o moving_avg_anomalies
        unique_anomalies == SortByAbsScore(<<>>, deduplicate_anomalies(all_anomalies))
        dicts == [k \in 1..Len(unique_anomalies) |-> ToDict(unique_anomalies[k])]
        resource_anomalies == ByResource(dicts)
    IN IF df = <<>> THEN [status |-> "no_data"]
       ELSE IF egress = <<>> THEN [status |-> "no_egress_data"]
       ELSE [status |-> "success",
             timestamp |-> utcnow,
             summary |->
                 [total_anomalies |-> Len(unique_anomalies),
                  total_resources_with_anomalies |-> Len(resource_anomalies),
                  algorithm_counts |->
                      [zscore |-> Len(zscore_anomalies),
                       mad |-> Len(mad_anomalies),
                       moving_average |-> Len(moving_avg_anomalies)],
                  severity_counts |->
                      [high |-> CountSeverity(unique_anomalies, "high"),
                       medium |-> CountSeverity(unique_anomalies, "medium"),
                       low |-> CountSeverity(unique_anomalies, "low")]],
             anomalies |-> dicts,
             by_resource |-> resource_anomalies]

\* the recommendation dictionaries of the analyzers: the title is a sequence
\* of its parts, resource_id is <<>> when the key is absent
AnomalyRec(type, severity, title, resource_id) ==
    [type |-> type, severity |-> severity, title |-> title, resource_id |-> resource_id]

\* one "Investigate ... Egress Anomaly" per resource that has an anomaly
RECURSIVE ResourceAnomalyRecsForAll(_)
ResourceAnomalyRecsForAll(by_resource) ==
    IF by_resource = <<>> THEN <<>>
    ELSE LET e == by_resource[1]
         IN (IF e.anomalies # <<>>
             THEN <<AnomalyRec("resource_specific", "high",
                               <<"Investigate ", e.anomalies[1].resource_name,
                                 " Egress Anomaly">>, <<e.resource_id>>)>>
             ELSE <<>>)
            \o ResourceAnomalyRecsForAll(SubSeq(by_resource, 2, Len(by_resource)))

\* one "Investigate ... Egress Anomaly" per resource with a high anomaly
RECURSIVE ResourceAnomalyRecs(_)
ResourceAnomalyRecs(by_resource) ==
    IF by_resource = <<>> THEN <<>>
    ELSE LET e == by_resource[1]
             has_high == \E k \in 1..Len(e.anomalies) : e.anomalies[k].severity = "high"
         IN (IF has_high
             THEN <<AnomalyRec("resource_specific", "high",
                               <<"Investigate ", e.anomalies[1].resource_name,
                                 " Egress Anomaly">>, <<e.resource_id>>)>>
             ELSE <<>>)
            \o ResourceAnomalyRecs(SubSeq(by_resource, 2, Len(by_resource)))

generate_anomaly_recommendations(anomaly_results) ==
    IF anomaly_results.status # "success" THEN <<>>
    ELSE IF anomaly_results.summary.total_anomalies = 0 THEN <<>>
    ELSE LET summary == anomaly_results.summary
             high_severity == SelectSeq(anomaly_results.anomalies,
                                        LAMBDA a : a.severity = "high")
         IN (IF high_severity # <<>>
             THEN <<AnomalyRec("security", "high",
                               <<"Critical Egress Anomalies Detected">>, <<>>)>>
             ELSE <<AnomalyRec("security", "medium",
                               <<"Egress Anomalies Detected">>, <<>>)>>)
            \o ResourceAnomalyRecs(anomaly_results.by_resource)
            \o (IF summary.total_anomalies > 5
                THEN <<AnomalyRec("cost", "medium",
                                  <<"Cost Impact from Anomalous Egress">>, <<>>)>>
                ELSE <<>>)

-----------------------------------------------------------------------------
(* RecommendationEngine.generate_recommendations and its steps.  A step    *)
(* that can raise returns a record whose raised field is <<>> when it      *)
(* returns normally and the exception's name otherwise.                    *)

\* the last path segment of the id; the model's ids have a single segment
get_resource_name(resource_id) == resource_id

\* a recommendation in the engine's standard format; id is the sequence of
\* the parts of the formatted id, absent keys are <<>>
StandardRec(id, type, title, severity, savings, confidence, source, resource_id) ==
    [id |-> id, type |-> type, title |-> title, severity |-> severity,
     potential_savings |-> savings, confidence |-> confidence, source |-> source,
     resource_id |-> resource_id,
     resource_name |-> IF resource_id = <<>> THEN <<>>
                       ELSE <<get_resource_name(resource_id[1])>>]

transform_cost_recommendations(cost_recs, utcnow) ==
    [i \in 1..Len(cost_recs) |->
        StandardRec(<<"cost", i - 1, utcnow>>, cost_recs[i].type, cost_recs[i].title,
                    cost_recs[i].severity, <<cost_recs[i].potential_savings>>, 90,
                    "cost_analyzer", cost_recs[i].resource_id)]

transform_anomaly_recommendations(anomaly_recs, utcnow) ==
    [i \in 1..Len(anomaly_recs) |->
        StandardRec(<<"anomaly", i - 1, utcnow>>, anomaly_recs[i].type,
                    anomaly_recs[i].title, anomaly_recs[i].severity, <<>>,
                    IF anomaly_recs[i].severity = "high" THEN 85 ELSE 70,
                    "anomaly_detector", anomaly_recs[i].resource_id)]

\* the recommendation for a moderate or strong increasing trend
RisingTrendRecs(trend_results, utcnow) ==
    IF trend_results.direction = "increasing"
       /\ trend_results.strength \in {"moderate", "strong"}
    THEN LET steep == FracAbove([num |-> Abs(trend_results.normalized_slope_percent.num),
                                 den |-> trend_results.normalized_slope_percent.den], 20)
         IN <<StandardRec(<<"trend_inc", utcnow>>, "trend",
                          <<"Rising Egress Traffic Trend Detected">>,
                          IF steep THEN "high" ELSE "medium", <<>>,
                          IF steep THEN 85 ELSE 70, "trend_analyzer", <<>>)>>
    ELSE <<>>

\* after the rising-trend block the step reads metrics_df, a name that is
\* bound neither in the method nor in the module: NameError
generate_trend_recommendations(trend_results, utcnow) ==
    IF trend_results.status # "success"
    THEN [raised |-> <<>>, recommendations |-> <<>>]
    ELSE [raised |-> <<"NameError">>,
          recommendations |-> RisingTrendRecs(trend_results, utcnow)]

\* the strategic review of rising costs
RisingCostsRecs(trend_results, cost_results, utcnow) ==
    IF Get(trend_results, "direction", "stable") = "increasing"
       /\ Get(cost_results, "cost_status", "normal") \in {"warning", "critical"}
    THEN <<StandardRec(<<"combined_rising_costs", utcnow>>, "strategic",
                       <<"Strategic Review of Rising Egress Costs">>, "high", <<>>,
                       90, "recommendation_engine", <<>>)>>
    ELSE <<>>

\* the security and cost alert; anomaly_results is <<>> when None is passed
AnomalyCostsRecsHighOnly(cost_results, anomaly_results, utcnow) ==
    IF /\ anomaly_results # <<>>
       /\ anomaly_results[1].status = "success"
       /\ anomaly_results[1].summary.total_anomalies > 3
       /\ anomaly_results[1].summary.severity_counts.high > 0
       /\ Get(cost_results, "cost_status", "normal") \in {"warning", "critical"}
    THEN <<StandardRec(<<"combined_anomaly_costs", utcnow>>, "security_cost",
                       <<"Security and Cost Alert: Unusual Egress Patterns">>,
                       "high", <<>>, 85, "recommendation_engine", <<>>)>>
    ELSE <<>>

AnomalyCostsRecs(cost_results, anomaly_results, utcnow) ==
    IF /\ anomaly_results # <<>>
       /\ anomaly_results[1].status = "success"
       /\ anomaly_results[1].summary.total_anomalies > 3
       /\ Get(cost_results, "cost_status", "normal") \in {"warning", "critical"}
    THEN LET high == anomaly_results[1].summary.severity_counts.high
         IN <<StandardRec(<<"combined_anomaly_costs", utcnow>>, "security_cost",
                          <<"Security and Cost Alert: Unusual Egress Patterns">>,
                          IF high > 0 THEN "high" ELSE "medium", <<>>,
                          IF high > 0 THEN 85 ELSE 70, "recommendation_engine", <<>>)>>
    ELSE <<>>

\* the CDN block is entered when total_cost > cost_threshold_warning * 0.5
\* and reads metrics_df, which is not bound there either: NameError
CdnBlockRaises(trend_results, cost_results) ==
    /\ trend_results.status = "success"
    /\ cost_results.status = "success"
    /\ 2 * Get(cost_results, "total_cost", 0) > cost_threshold_warning

generate_combined_recommendations(trend_results, cost_results, anomaly_results, utcnow) ==
    [raised |-> IF CdnBlockRaises(trend_results, cost_results)
                THEN <<"NameError">> ELSE <<>>,
     recommendations |-> RisingCostsRecs(trend_results, cost_results, utcnow)
                         \o AnomalyCostsRecs(cost_results, anomaly_results, utcnow)]

\* flags that are set only when every analysis is valid
SourceFlagsAllOrNothing(trend_valid, cost_valid, anomaly_valid) ==
    [trends |-> trend_valid /\ cost_valid /\ anomaly_valid,
     costs |-> trend_valid /\ cost_valid /\ anomaly_valid,
     anomalies |-> trend_valid /\ cost_valid /\ anomaly_valid]

\* result["sources"]
SourceFlags(trend_valid, cost_valid, anomaly_valid) ==
    [trends |-> trend_valid, costs |-> cost_valid, anomalies |-> anomaly_valid]

\* every type counted with the length of the whole list
CategoryCountsOfAll(final) ==
    LET order == CategoryOrder(<<>>, final)
    IN [k \in 1..Len(order) |-> [type |-> order[k], count |-> Len(final)]]

\* result["categories"]: the count of every type, in order of first appearance
CategoryCounts(final) ==
    LET order == CategoryOrder(<<>>, final)
    IN [k \in 1..Len(order) |->
           [type |-> order[k], count |-> Len(OfCategory(final, order[k]))]]

\* a step that is not run
NoStep == [raised |-> <<>>, recommendations |-> <<>>]

\* the four collecting steps of generate_recommendations, each run when its
\* analyses are valid
CollectSteps(trend_results, cost_results, anomaly_results, utcnow) ==
    [cost |-> IF cost_results.status = "success"
              THEN generate_cost_recommendations(cost_results) ELSE NoStep,
     trend |-> IF trend_results.status = "success"
               THEN generate_trend_recommendations(trend_results, utcnow) ELSE NoStep,
     anomaly |-> IF anomaly_results.status = "success"
                 THEN generate_anomaly_recommendations(anomaly_results) ELSE <<>>,
     combined |-> IF trend_results.status = "success" /\ cost_results.status = "success"
                  THEN generate_combined_recommendations(
                           trend_results, cost_results,
                           IF anomaly_results.status = "success"
                           THEN <<anomaly_results>> ELSE <<>>,
                           utcnow)
                  ELSE NoStep]

\* all_recommendations, in the order in which the steps extend it
AllRecommendations(steps, utcnow) ==
    transform_cost_recommendations(steps.cost.recommendations, utcnow)
    \o steps.trend.recommendations
    \o transform_anomaly_recommendations(steps.anomaly, utcnow)
    \o steps.combined.recommendations

\* the result dictionary
Envelope(final_recommendations, sources, utcnow) ==
    [status |-> IF final_recommendations # <<>> THEN "success" ELSE "no_recommendations",
     timestamp |-> utcnow,
     count |-> Len(final_recommendations),
     sources |-> sources,
     recommendations |-> final_recommendations,
     categories |-> CategoryCounts(final_recommendations)]

\* the first exception raised by a step leaves the call; otherwise the
\* recommendations are deduplicated, prioritized and returned
FinishCall(steps, sources, per_category, total, utcnow) ==
    IF steps.cost.raised # <<>> THEN [raised |-> steps.cost.raised, result |-> <<>>]
    ELSE IF steps.trend.raised # <<>> THEN [raised |-> steps.trend.raised, result |-> <<>>]
    ELSE IF steps.combined.raised # <<>>
    THEN [raised |-> steps.combined.raised, result |-> <<>>]
    ELSE [raised |-> <<>>,
          result |-> <<Envelope(prioritize_recommendations(
                                    deduplicate_recommendations(
                                        AllRecommendations(steps, utcnow)),
                                    per_category, total),
                                sources, utcnow)>>]

RunAnalyses(trend_results, cost_results, anomaly_results, per_category, total, utcnow) ==
    FinishCall(CollectSteps(trend_results, cost_results, anomaly_results, utcnow),
               SourceFlags(trend_results.status = "success",
                           cost_results.status = "success",
                           anomaly_results.status = "success"),
               per_category, total, utcnow)

\* the call as a whole: raised names the exception that leaves the call,
\* result is <<>> then and <<the returned dictionary>> otherwise
generate_recommendations(zones, config, per_category, total, df, utcnow) ==
    IF df = <<>>
    THEN [raised |-> <<>>,
          result |-> <<[status |-> "no_data", recommendations |-> <<>>]>>]
    ELSE RunAnalyses(analyze_overall_trend(df), analyze_costs(zones, df),
                     detect_anomalies(df, config, utcnow), per_category, total, utcnow)

-----------------------------------------------------------------------------
(* Datasets.  A dataset is built row by row before an analyzer is called.  *)
(* Its rows are kept resource by resource and metric by metric, each group *)
(* in time order with one row per day, which is the order in which the     *)
(* collector lays the samples out.                                         *)

\* the position of a group in the order of the rows
GroupIndex(rid, metric) ==
    LET r == CHOOSE i \in 1..Len(ResourceIds) : ResourceIds[i] = rid
        m == CHOOSE i \in 1..Len(MetricNames) : MetricNames[i] = metric
    IN (r - 1) * Len(MetricNames) + m

NoCallYet ==
    /\ anomOut = <<>>
    /\ calls = <<>>
    /\ cost_analysis = <<>>
    /\ costRecsOut = <<>>
    /\ engOut = <<>>

AddSample(rid, metric, value, limit) ==
    /\ NoCallYet
    /\ Len(dataset) < limit
    /\ IF dataset = <<>> THEN TRUE
       ELSE GroupIndex(dataset[Len(dataset)].resource_id,
                       dataset[Len(dataset)].metric_name) <= GroupIndex(rid, metric)
    /\ dataset' = Append(dataset,
                         Row(rid, metric,
                             Len(SelectSeq(dataset, LAMBDA row : /\ row.resource_id = rid
                                                                 /\ row.metric_name = metric)) + 1,
                             value))
    /\ UNCHANGED <<storageVars, batchVars, detection_config, min_data_points, now, anomOut, calls, cost_analysis, costRecsOut,
                   engOut, costVars, dedupVars, recVars>>

\* time passes between two calls
Tick ==
    /\ now < MaxClock
    /\ now' = now + 1
    /\ UNCHANGED <<storageVars, batchVars, dataset, detection_config, min_data_points, anomOut, calls, cost_analysis, costRecsOut,
                   engOut, costVars, dedupVars, recVars>>

\* detector configurations under which the small groups of the model are scored
AnomalyConfigs ==
    {[zscore_threshold |-> Frac(1, 2), min_data_points |-> 2,
      mad_threshold |-> Frac(1, 2), moving_avg_window |-> 2,
      peak_detection_threshold |-> Frac(1, 2)],
     [zscore_threshold |-> Frac(1, 1), min_data_points |-> 3,
      mad_threshold |-> Frac(1, 1), moving_avg_window |-> 2,
      peak_detection_threshold |-> Frac(1, 1)]}

\* groups and values of the datasets given to the detector alone
AnomalyGroups == {<<"vm-a", "BytesOut">>, <<"vm-a", "NetworkOut">>, <<"web-b", "BytesOut">>}
AnomalyValues == {1, 3}

\* groups and values (in GB) of the datasets given to the other components
AnalysisGroups == {<<"vm-a", "BytesIn">>, <<"vm-a", "BytesOut">>, <<"web-b", "BytesOut">>}
AnalysisValues == {0, 2000}

InitAnalysis ==
    /\ pricing = DEFAULT_PRICING
    /\ CostIdle
    /\ StorageIdle
    /\ BatchIdle
    /\ DedupIdle
    /\ RecIdle
    /\ dataset = <<>>
    /\ detection_config \in AnomalyConfigs
    /\ min_data_points = TrendMinDataPoints
    /\ now = 0
    /\ NoCallYet

-----------------------------------------------------------------------------
(* detect_anomalies on a dataset *)

DetectAnomalies ==
    /\ anomOut = <<>>
    /\ anomOut' = <<[zscore_anomalies |->
                         detect_zscore_anomalies(EgressRows(dataset), detection_config),
                     mad_anomalies |->
                         detect_mad_anomalies(EgressRows(dataset), detection_config),
                     moving_avg_anomalies |->
                         detect_moving_avg_anomalies(EgressRows(dataset), detection_config),
                     result |-> detect_anomalies(dataset, detection_config, now)]>>
    /\ UNCHANGED <<storageVars, batchVars, dataset, detection_config, min_data_points, now, calls, cost_analysis, costRecsOut,
                   engOut, costVars, dedupVars, recVars>>

NextAnom ==
    \/ \E g \in AnomalyGroups, v \in AnomalyValues : AddSample(g[1], g[2], v, MaxSamples)
    \/ DetectAnomalies

SpecAnom == InitAnalysis /\ [][NextAnom]_vars

-----------------------------------------------------------------------------
(* The analyzer entry points called one after the other on one dataset *)

AnalyzerOps == {"analyze_overall_trend", "analyze_costs", "detect_anomalies"}

AnalyzerResult(op) ==
    CASE op = "analyze_overall_trend" -> analyze_overall_trend(dataset)
      [] op = "analyze_costs" -> analyze_costs(pricing, dataset)
      [] OTHER -> detect_anomalies(dataset, detection_config, now)

CallAnalyzer(op) ==
    /\ Len(calls) < MaxCalls
    /\ calls' = Append(calls, [op |-> op, result |-> AnalyzerResult(op)])
    /\ UNCHANGED <<storageVars, batchVars, dataset, detection_config, min_data_points, now, anomOut, cost_analysis, costRecsOut,
                   engOut, costVars, dedupVars, recVars>>

NextIdem ==
    \/ \E g \in AnalysisGroups, v \in AnalysisValues :
          AddSample(g[1], g[2], v, MaxIdemSamples)
    \/ Tick
    \/ \E op \in AnalyzerOps : CallAnalyzer(op)

SpecIdem == InitAnalysis /\ [][NextIdem]_vars

-----------------------------------------------------------------------------
(* analyze_costs, whose result the caller hands to                         *)
(* generate_cost_recommendations                                           *)

AnalyzeCosts ==
    /\ cost_analysis = <<>>
    /\ cost_analysis' = <<analyze_costs(pricing, dataset)>>
    /\ UNCHANGED <<storageVars, batchVars, dataset, detection_config, min_data_points, now, anomOut, calls, costRecsOut,
                   engOut, costVars, dedupVars, recVars>>

GenerateCostRecommendations ==
    /\ cost_analysis # <<>>
    /\ costRecsOut = <<>>
    /\ LET call == generate_cost_recommendations(cost_analysis[1])
       IN /\ costRecsOut' = <<[raised |-> call.raised,
                               recommendations |-> call.recommendations]>>
          /\ cost_analysis' = <<call.analysis>>
    /\ UNCHANGED <<storageVars, batchVars, dataset, detection_config, min_data_points, now, anomOut, calls,
                   engOut, costVars, dedupVars, recVars>>

NextCostAn ==
    \/ \E g \in AnalysisGroups, v \in AnalysisValues : AddSample(g[1], g[2], v, MaxSamples)
    \/ AnalyzeCosts
    \/ GenerateCostRecommendations

SpecCostAn == InitAnalysis /\ [][NextCostAn]_vars

-----------------------------------------------------------------------------
(* The cost analyzer on datasets of four resources of three resource types *)

CostGroups ==
    {<<"lb-c", "BytesOut">>, <<"vm-a", "BytesOut">>, <<"vm-d", "BytesOut">>,
     <<"web-b", "BytesOut">>}

\* values in GB: 100 GB cost less than the warning threshold and project
\* beyond it, 2000 GB cost more than it
CostValues == {0, 100, 2000}

InitCostStatus ==
    /\ pricing = DEFAULT_PRICING
    /\ CostIdle
    /\ StorageIdle
    /\ BatchIdle
    /\ DedupIdle
    /\ RecIdle
    /\ dataset = <<>>
    /\ detection_config = DefaultAnomalyConfig
    /\ min_data_points = TrendMinDataPoints
    /\ now = 0
    /\ NoCallYet

NextCostStatus ==
    \/ \E g \in CostGroups, v \in CostValues : AddSample(g[1], g[2], v, MaxCostSamples)
    \/ AnalyzeCosts
    \/ GenerateCostRecommendations

SpecCostStatus == InitCostStatus /\ [][NextCostStatus]_vars

-----------------------------------------------------------------------------
(* The cost analyzer on datasets whose rows lie up to 24 days apart *)

SpanGroups == {<<"vm-a", "BytesOut">>, <<"web-b", "BytesOut">>}
SpanTimes == {1, 24, 25}
SpanValues == {0, 100}

\* a row with a timestamp of the caller's choice; the rows of a group are in
\* the order of their timestamps
AddSampleAt(rid, metric, timestamp, value, limit) ==
    /\ NoCallYet
    /\ Len(dataset) < limit
    /\ IF dataset = <<>> THEN TRUE
       ELSE LET last == dataset[Len(dataset)]
            IN \/ GroupIndex(last.resource_id, last.metric_name) < GroupIndex(rid, metric)
               \/ /\ last.resource_id = rid
                  /\ last.metric_name = metric
                  /\ last.timestamp < timestamp
    /\ dataset' = Append(dataset, Row(rid, metric, timestamp, value))
    /\ UNCHANGED <<storageVars, batchVars, detection_config, min_data_points, now, anomOut,
                   calls, cost_analysis, costRecsOut, engOut, costVars, dedupVars, recVars>>

NextSpan ==
    \/ \E g \in SpanGroups, t \in SpanTimes, v \in SpanValues :
          AddSampleAt(g[1], g[2], t, v, MaxSpanSamples)
    \/ AnalyzeCosts
    \/ GenerateCostRecommendations

SpecSpan == InitCostStatus /\ [][NextSpan]_vars

-----------------------------------------------------------------------------
(* project_costs on the result of analyze_costs *)

\* values in GB
ProjectValues == {0, 2000}

\* trend_factor: a monthly decrease, no trend, a monthly increase
TrendFactors == {0 - 50, 0, 100}

ProjectCosts(projection_months, trend_factor) ==
    /\ cost_analysis # <<>>
    /\ calls = <<>>
    /\ calls' = <<[op |-> "project_costs",
                   projection_months |-> projection_months,
                   trend_factor |-> trend_factor,
                   result |-> project_costs(cost_analysis[1], projection_months,
                                            trend_factor)]>>
    /\ UNCHANGED <<storageVars, batchVars, dataset, detection_config, min_data_points, now, anomOut, cost_analysis,
                   costRecsOut, engOut, costVars, dedupVars, recVars>>

NextProject ==
    \/ \E g \in AnalysisGroups, v \in ProjectValues :
          AddSample(g[1], g[2], v, MaxProjectSamples)
    \/ AnalyzeCosts
    \/ \E m \in 0..MaxProjectionMonths, t \in TrendFactors : ProjectCosts(m, t)

SpecProject == InitCostStatus /\ [][NextProject]_vars

-----------------------------------------------------------------------------
(* _generate_combined_recommendations on the results of the three          *)
(* analyzers for a dataset; None is passed for an anomaly result that is   *)
(* not a success                                                           *)

CombinedGroups == {<<"vm-a", "BytesOut">>, <<"web-b", "BytesOut">>}

\* values in GB: pairs of rows that are flagged as anomalies at a cost below
\* and above the warning threshold
CombinedValues == {0, 400, 1200}

InitCombined ==
    /\ pricing = DEFAULT_PRICING
    /\ CostIdle
    /\ StorageIdle
    /\ BatchIdle
    /\ DedupIdle
    /\ RecIdle
    /\ dataset = <<>>
    /\ detection_config \in {c \in AnomalyConfigs : c.min_data_points = 2}
    /\ min_data_points = TrendMinDataPoints
    /\ now = 0
    /\ NoCallYet

GenerateCombinedRecommendations ==
    /\ calls = <<>>
    /\ calls' = <<[op |-> "generate_combined_recommendations",
                   result |-> generate_combined_recommendations(
                                  analyze_overall_trend(dataset),
                                  analyze_costs(pricing, dataset),
                                  IF dataset # <<>> /\ EgressRows(dataset) # <<>>
                                  THEN <<detect_anomalies(dataset, detection_config, now)>>
                                  ELSE <<>>,
                                  now)]>>
    /\ UNCHANGED <<storageVars, batchVars, dataset, detection_config, min_data_points, now, anomOut, cost_analysis,
                   costRecsOut, engOut, costVars, dedupVars, recVars>>

NextCombined ==
    \/ \E g \in CombinedGroups, v \in CombinedValues : AddSample(g[1], g[2], v, MaxSamples)
    \/ GenerateCombinedRecommendations

SpecCombined == InitCombined /\ [][NextCombined]_vars

-----------------------------------------------------------------------------
(* generate_recommendations on a dataset *)

GenerateRecommendations ==
    /\ engOut = <<>>
    /\ engOut' = <<generate_recommendations(pricing, detection_config, max_per_category,
                                            max_recommendations, dataset, now)>>
    /\ UNCHANGED <<storageVars, batchVars, dataset, detection_config, min_data_points, now, anomOut, calls, cost_analysis,
                   costRecsOut, costVars, dedupVars, recVars>>

NextEngine ==
    \/ \E g \in AnalysisGroups, v \in AnalysisValues : AddSample(g[1], g[2], v, MaxSamples)
    \/ GenerateRecommendations

SpecEngine == InitAnalysis /\ [][NextEngine]_vars

-----------------------------------------------------------------------------
(* One analyzer called on a dataset, the trend analyzer under a configured *)
(* min_data_points                                                          *)

\* configured values of analysis.trends.min_data_points
TrendMinChoices == 1..(TrendMinDataPoints + 1)

\* values of the rows: per-timestamp totals that are flat, that rise or fall
\* by one percent of their mean per point, and that rise or fall faster
TrendValues == {0, 198, 200, 202, 230}

InitTrend ==
    /\ pricing = DEFAULT_PRICING
    /\ CostIdle
    /\ StorageIdle
    /\ BatchIdle
    /\ DedupIdle
    /\ RecIdle
    /\ dataset = <<>>
    /\ detection_config = DefaultAnomalyConfig
    /\ min_data_points \in TrendMinChoices
    /\ now = 0
    /\ NoCallYet

Analyze(op) ==
    /\ calls = <<>>
    /\ CallAnalyzer(op)

NextTrend ==
    \/ \E g \in AnalysisGroups, v \in TrendValues : AddSample(g[1], g[2], v, MaxTrendSamples)
    \/ \E op \in AnalyzerOps : Analyze(op)

SpecTrend == InitTrend /\ [][NextTrend]_vars

-----------------------------------------------------------------------------
(* MetricsStorage with local storage: store_metrics and                    *)
(* list_available_collections. Nothing in the repository writes to the     *)
(* processed directory, which stays empty.                                 *)

\* the ticks of the host clock in a second
TicksPerSecond == 2

\* an id that keeps the full resolution of the clock
GeneratedIdToTheTick(t) == t

\* datetime.utcnow().strftime("%Y%m%d%H%M%S"): the time, cut to the second
GeneratedId(t) == t \div TicksPerSecond

\* open(raw_file, 'w') and json.dump: the file of that name is replaced
WriteFile(files, id, metrics_data, mtime) ==
    {f \in files : f.id # id} \cup {[id |-> id, data |-> metrics_data, mtime |-> mtime]}

\* the collection id that store_metrics returns and the raw directory it leaves
store_metrics(files, metrics_data, collection_id, t) ==
    LET id == IF collection_id = <<>> THEN GeneratedId(t) ELSE collection_id[1]
    IN [collection_id |-> id, files |-> WriteFile(files, id, metrics_data, t)]

\* collections.sort(key = timestamp, reverse = True); the model's files have
\* pairwise different modification times
RECURSIVE NewestFirst(_)
NewestFirst(files) ==
    IF files = {} THEN <<>>
    ELSE LET f == CHOOSE x \in files : \A g \in files : g.mtime <= x.mtime
         IN <<[id |-> f.id, type |-> "raw", timestamp |-> f.mtime]>>
            \o NewestFirst(files \ {f})

list_available_collections(files, max_results) ==
    SubSeq(NewestFirst(files), 1, Min(max_results, Cardinality(files)))

\* the metrics_data and the collection_id arguments of the model; a caller's
\* own id is no timestamp
MetricsData == {"m1", "m2"}
CollectionIds == {<<>>, <<0 - 1>>}

StoreMetrics(metrics_data, collection_id) ==
    /\ Len(storeOut) < MaxStores
    /\ clock < MaxStorageClock
    /\ listOut = <<>>
    /\ LET call == store_metrics(raw_path, metrics_data, collection_id, clock)
       IN /\ raw_path' = call.files
          /\ storeOut' = Append(storeOut, [id |-> call.collection_id,
                                           generated |-> collection_id = <<>>,
                                           data |-> metrics_data])
    /\ clock' = clock + 1
    /\ UNCHANGED <<listOut, costVars, dedupVars, recVars, analysisVars, batchVars>>

\* time passes between two calls
TickClock ==
    /\ clock < MaxStorageClock
    /\ listOut = <<>>
    /\ clock' = clock + 1
    /\ UNCHANGED <<raw_path, storeOut, listOut, costVars, dedupVars, recVars, analysisVars,
                   batchVars>>

ListAvailableCollections(max_results) ==
    /\ listOut = <<>>
    /\ listOut' = <<[max_results |-> max_results,
                     collections |-> list_available_collections(raw_path, max_results)]>>
    /\ UNCHANGED <<raw_path, clock, storeOut, costVars, dedupVars, recVars, analysisVars,
                   batchVars>>

InitStorage ==
    /\ pricing = DEFAULT_PRICING
    /\ CostIdle
    /\ DedupIdle
    /\ RecIdle
    /\ AnalysisIdle
    /\ StorageIdle
    /\ BatchIdle

NextStorage ==
    \/ \E d \in MetricsData, c \in CollectionIds : StoreMetrics(d, c)
    \/ TickClock
    \/ \E k \in 0..MaxResults : ListAvailableCollections(k)

SpecStorage == InitStorage /\ [][NextStorage]_vars

-----------------------------------------------------------------------------
(* batch_list_generator: one step per call of the collection function, per *)
(* item yielded and per page finished. pages[k] is what the k-th call of   *)
(* the collection function does: it raises, or it returns a page of        *)
(* size items with a continuation token.                                   *)

PageSizes == {0, 2}
Tokens == {"token1", "token2"}

Responses ==
    {[raises |-> TRUE, size |-> 0, continuation_token |-> <<>>]}
    \cup {[raises |-> FALSE, size |-> n, continuation_token |-> t] :
             n \in PageSizes, t \in {<<>>} \cup {<<x>> : x \in Tokens}}

\* the items of the page that the k-th call returns
PageItems(k, size) == [j \in 1..size |-> <<k, j>>]

\* kwargs as passed to the next call, with a token that is set
NextKwargsWithoutToken(kw, token) == kw

\* if continuation_token: kwargs['skip_token'] = continuation_token
NextKwargs(kw, token) ==
    IF token # <<>> THEN [kw EXCEPT !.skip_token = token] ELSE kw

\* the generator is created with the default max_batch_size and no skip_token
InitBatch ==
    /\ pricing = DEFAULT_PRICING
    /\ CostIdle
    /\ StorageIdle
    /\ DedupIdle
    /\ RecIdle
    /\ AnalysisIdle
    /\ pages \in UNION {[1..n -> Responses] : n \in 1..MaxPages}
    /\ batchPc = "fetch"
    /\ kwargs = [top |-> 100, skip_token |-> <<>>]
    /\ fnCalls = <<>>
    /\ page = <<>>
    /\ continuation_token = <<>>
    /\ yielded = <<>>

\* page = collection_function(**kwargs); the run is followed for Len(pages) calls
FetchPage ==
    /\ batchPc = "fetch"
    /\ Len(fnCalls) < Len(pages)
    /\ LET kw == NextKwargs(kwargs, continuation_token)
           response == pages[Len(fnCalls) + 1]
       IN /\ kwargs' = kw
          /\ fnCalls' = Append(fnCalls, kw)
          /\ IF response.raises
             THEN /\ batchPc' = "done"
                  /\ page' = <<>>
             ELSE /\ batchPc' = "iterate"
                  /\ page' = PageItems(Len(fnCalls) + 1, response.size)
    /\ UNCHANGED <<pages, continuation_token, yielded, costVars, dedupVars, recVars,
                   analysisVars, storageVars>>

\* yield item
YieldItem ==
    /\ batchPc = "iterate"
    /\ page # <<>>
    /\ yielded' = Append(yielded, Head(page))
    /\ page' = Tail(page)
    /\ UNCHANGED <<pages, batchPc, kwargs, fnCalls, continuation_token, costVars, dedupVars,
                   recVars, analysisVars, storageVars>>

\* continuation_token = page.continuation_token; break if there is none
EndOfPage ==
    /\ batchPc = "iterate"
    /\ page = <<>>
    /\ continuation_token' = pages[Len(fnCalls)].continuation_token
    /\ batchPc' = IF pages[Len(fnCalls)].continuation_token = <<>> THEN "done" ELSE "fetch"
    /\ UNCHANGED <<pages, kwargs, fnCalls, page, yielded, costVars, dedupVars, recVars,
                   analysisVars, storageVars>>

NextBatch ==
    \/ FetchPage
    \/ YieldItem
    \/ EndOfPage

\* the consumer keeps asking for the next item and every call of the
\* collection function returns or raises
SpecBatch == InitBatch /\ [][NextBatch]_vars /\ WF_vars(NextBatch)

-----------------------------------------------------------------------------
(* analyze_overall_trend on a series of more than a week of timepoints *)

WeekGroups == {<<"vm-a", "BytesOut">>}
WeekValues == {0, 100}

AnalyzeOverallTrend ==
    /\ calls = <<>>
    /\ CallAnalyzer("analyze_overall_trend")

NextWeek ==
    \/ \E g \in WeekGroups, v \in WeekValues : AddSample(g[1], g[2], v, MaxWeekSamples)
    \/ AnalyzeOverallTrend

SpecWeek == InitCostStatus /\ [][NextWeek]_vars

-----------------------------------------------------------------------------
(* detect_anomalies, whose result the caller hands to                      *)
(* generate_anomaly_recommendations                                        *)

GenerateAnomalyRecommendations ==
    /\ anomOut # <<>>
    /\ calls = <<>>
    /\ calls' = <<[op |-> "generate_anomaly_recommendations",
                   result |-> generate_anomaly_recommendations(anomOut[1].result)]>>
    /\ UNCHANGED <<storageVars, batchVars, dataset, detection_config, min_data_points, now, anomOut, cost_analysis,
                   costRecsOut, engOut, costVars, dedupVars, recVars>>

NextAnomalyRec ==
    \/ \E g \in AnomalyGroups, v \in AnomalyValues :
          AddSample(g[1], g[2], v, MaxAnomalyRecSamples)
    \/ DetectAnomalies
    \/ GenerateAnomalyRecommendations

SpecAnomalyRec == InitAnalysis /\ [][NextAnomalyRec]_vars

-----------------------------------------------------------------------------
(* Properties of generate_recommendations *)

EngineReturned == engOut # <<>> /\ dataset # <<>> /\ engOut[1].raised = <<>>

\* C6: for every non-empty dataset generate_recommendations returns a result
\* and does not raise, also when trend analysis succeeds and the trend and
\* combined steps run.
C6_NeverRaises ==
    (engOut # <<>> /\ dataset # <<>>) => engOut[1].raised = <<>>

\* the recommendations of a result that carry a source tag
FromSource(result, source) ==
    SelectSeq(result.recommendations, LAMBDA rec : rec.source = source)

\* the sources flags and the source tags of a result agree with the
\* statuses the three analyzers returned
SourcesAgree(result, trend_results, cost_results, anomaly_results) ==
    /\ result.sources.trends = (trend_results.status = "success")
    /\ result.sources.costs = (cost_results.status = "success")
    /\ result.sources.anomalies = (anomaly_results.status = "success")
    /\ trend_results.status # "success" => FromSource(result, "trend_analyzer") = <<>>
    /\ cost_results.status # "success" => FromSource(result, "cost_analyzer") = <<>>
    /\ anomaly_results.status # "success" => FromSource(result, "anomaly_detector") = <<>>
    /\ (trend_results.status # "success" \/ cost_results.status # "success")
          => FromSource(result, "recommendation_engine") = <<>>
    /\ cost_results.status = "success" => FromSource(result, "cost_analyzer") # <<>>
    /\ (anomaly_results.status = "success" /\ anomaly_results.summary.total_anomalies > 0)
          => FromSource(result, "anomaly_detector") # <<>>

\* C7: in a returned result each sources flag is true exactly when that
\* analyzer returned status success; an analyzer that did not succeed has no
\* entry with its source tag, and the analyzers that did succeed have theirs.
C7_SourcesTrackSuccess ==
    EngineReturned =>
        SourcesAgree(engOut[1].result[1], analyze_overall_trend(dataset),
                     analyze_costs(pricing, dataset),
                     detect_anomalies(dataset, detection_config, now))

\* trend analysis did not succeed, the other two did and both contributed
C7_Witness ==
    /\ EngineReturned
    /\ engOut[1].result[1].sources = [trends |-> FALSE, costs |-> TRUE, anomalies |-> TRUE]
    /\ FromSource(engOut[1].result[1], "cost_analyzer") # <<>>
    /\ FromSource(engOut[1].result[1], "anomaly_detector") # <<>>

-----------------------------------------------------------------------------
(* Properties of the analyzers *)

\* C8: two calls of the same analyzer entry point on the unmodified dataset
\* return results that are identical in every field, whatever happens
\* between the calls.
C8_SameResultTwice ==
    \A i \in 1..Len(calls), j \in 1..Len(calls) :
        calls[i].op = calls[j].op => calls[i].result = calls[j].result

\* C9: generate_cost_recommendations leaves the analysis result it receives
\* as analyze_costs returned it, the order of its resources list included.
C9_ArgumentUnchanged ==
    costRecsOut # <<>> => cost_analysis[1] = analyze_costs(pricing, dataset)

\* the rows of the dataset that belong to a resource and a metric
RowsOfGroup(g) ==
    SelectSeq(dataset, LAMBDA row : row.resource_id = g[1] /\ row.metric_name = g[2])

\* every value of the group is the same
IdenticalGroup(g) ==
    /\ RowsOfGroup(g) # <<>>
    /\ \A k \in 1..Len(RowsOfGroup(g)) : RowsOfGroup(g)[k].value = RowsOfGroup(g)[1].value

\* the anomalies of a list that are reported for a group
ReportedFor(list, g) ==
    SelectSeq(list, LAMBDA a : a.resource_id = g[1] /\ a.metric_name = g[2])

-----------------------------------------------------------------------------
(* Properties of analyze_overall_trend and of the status of the analyzers *)

\* the results of the calls of analyze_overall_trend made so far
TrendCalls == {i \in 1..Len(calls) : calls[i].op = "analyze_overall_trend"}

\* direction and strength as the bands of the normalized slope q state them
InBand(result) ==
    LET q == result.normalized_slope_percent
        mag == Abs(q.num)
    IN IF mag < q.den
       THEN result.direction = "stable" /\ result.strength = "none"
       ELSE /\ result.direction = (IF q.num > 0 THEN "increasing" ELSE "decreasing")
            /\ result.strength = (IF mag > 10 * q.den THEN "strong"
                                  ELSE IF mag > 5 * q.den THEN "moderate"
                                  ELSE "weak")

\* C11 as stated: in every successful analyze_overall_trend result direction
\* and strength are the bands of normalized_slope_percent
C11_ClassifiedBySlope ==
    \A i \in TrendCalls :
        calls[i].result.status = "success" => InBand(calls[i].result)

\* C11 amended: a successful analyze_overall_trend result with at least 3
\* timepoints has the direction and strength of the bands of its
\* normalized_slope_percent; with fewer than 3 timepoints direction and
\* strength are unknown and the normalized slope is reported as 0
C11_ClassifiedBySlopeFromThreePoints ==
    \A i \in TrendCalls :
        LET result == calls[i].result
        IN result.status = "success" =>
              IF result.timepoints >= 3
              THEN InBand(result)
              ELSE /\ result.direction = "unknown"
                   /\ result.strength = "unknown"
                   /\ result.normalized_slope_percent.num = 0

\* a falling series of three totals whose slope is between 5 and 10 percent
C11_Witness ==
    \E i \in TrendCalls :
        /\ calls[i].result.status = "success"
        /\ calls[i].result.timepoints >= 3
        /\ calls[i].result.direction = "decreasing"
        /\ calls[i].result.strength = "moderate"

\* the per-timestamp totals of the egress rows of the dataset
DistinctTimestamps == {dataset[i].timestamp : i \in {k \in 1..Len(dataset) :
                          dataset[k].metric_name \in {"BytesOut", "NetworkOut"}}}

TotalAt(t) ==
    SumSeq(ValuesOf(SelectSeq(dataset, LAMBDA row :
        row.timestamp = t /\ row.metric_name \in {"BytesOut", "NetworkOut"})))

FlatDataset ==
    /\ Cardinality(DistinctTimestamps) >= min_data_points
    /\ DistinctTimestamps # {}
    /\ \A t, u \in DistinctTimestamps : TotalAt(t) = TotalAt(u)

\* C12: analyze_overall_trend on a dataset with at least min_data_points
\* distinct timestamps whose per-timestamp egress totals are all equal (all
\* zero included) returns success with direction stable and strength none
C12_FlatSeriesIsStable ==
    \A i \in TrendCalls :
        FlatDataset => /\ calls[i].result.status = "success"
                       /\ calls[i].result.direction = "stable"
                       /\ calls[i].result.strength = "none"

-----------------------------------------------------------------------------
(* The object generate_recommendations returns *)

EnvelopeFields == {"status", "timestamp", "count", "sources", "categories", "recommendations"}

\* C14: for every dataset, an empty one included, the object that
\* generate_recommendations returns has the fields status, timestamp, count,
\* sources (with trends, costs and anomalies, all booleans), categories and
\* recommendations
C14_EnvelopeComplete ==
    (engOut # <<>> /\ engOut[1].raised = <<>>) =>
        LET result == engOut[1].result[1]
        IN /\ EnvelopeFields \subseteq DOMAIN result
           /\ DOMAIN result.sources = {"trends", "costs", "anomalies"}
           /\ \A k \in DOMAIN result.sources : result.sources[k] \in BOOLEAN

-----------------------------------------------------------------------------
(* Properties of the three scorers *)

\* abs(score) > t * m / d, for a threshold t and a factor m / d
Beyond(score, t, m, d) ==
    CmpFrac(SquareOf(score)[1], SquareOf(score)[2],
            (t.num * m) * (t.num * m), (t.den * d) * (t.den * d)) = 1

\* every anomaly of a scorer's list is beyond the threshold t and carries the
\* severity of its band
Banded(list, t) ==
    \A k \in 1..Len(list) :
        /\ Beyond(list[k].score, t, 1, 1)
        /\ list[k].severity = "high" <=> Beyond(list[k].score, t, 2, 1)
        /\ list[k].severity = "low" <=> ~Beyond(list[k].score, t, 12, 10)
        /\ list[k].severity \in {"high", "medium", "low"}

\* C15: every anomaly a scorer reports has |score| > that scorer's
\* threshold t; its severity is high exactly when |score| > 2t, low exactly
\* when |score| <= 1.2t, and medium otherwise
C15_SeverityBands ==
    anomOut # <<>> =>
        /\ Banded(anomOut[1].zscore_anomalies, detection_config.zscore_threshold)
        /\ Banded(anomOut[1].mad_anomalies, detection_config.mad_threshold)
        /\ Banded(anomOut[1].moving_avg_anomalies, detection_config.peak_detection_threshold)

SeveritiesIn(list) == {list[k].severity : k \in 1..Len(list)}

\* the z-score scorer reported anomalies of all three severities, next to
\* anomalies of the MAD scorer
C15_Witness ==
    /\ anomOut # <<>>
    /\ SeveritiesIn(anomOut[1].zscore_anomalies) = {"high", "medium", "low"}
    /\ anomOut[1].mad_anomalies # <<>>

-----------------------------------------------------------------------------
(* Properties of generate_anomaly_recommendations *)

\* how many recommendations of a list have a type
OfType(recs, type) == Len(SelectSeq(recs, LAMBDA rec : rec.type = type))

\* how many resource-specific recommendations of a list are for a resource
ForResource(recs, rid) ==
    Len(SelectSeq(recs, LAMBDA rec : rec.type = "resource_specific"
                                     /\ rec.resource_id = <<rid>>))

HasHigh(anomalies, rid) ==
    \E k \in 1..Len(anomalies) :
        anomalies[k].resource_id = rid /\ anomalies[k].severity = "high"

AnyHigh(anomalies) == \E k \in 1..Len(anomalies) : anomalies[k].severity = "high"

\* C16: generate_anomaly_recommendations returns nothing for a result that
\* is not a success or has no anomaly; otherwise exactly one security
\* recommendation (high if an anomaly is high, else medium), exactly one
\* resource-specific recommendation for each resource with a high anomaly
\* and none for the others, the cost recommendation exactly when
\* total_anomalies > 5, and nothing else
C16_AnomalyRecommendations ==
    (anomOut # <<>> /\ calls # <<>>) =>
        LET res == anomOut[1].result
            recs == calls[1].result
        IN IF res.status # "success" THEN recs = <<>>
           ELSE IF res.summary.total_anomalies = 0 THEN recs = <<>>
           ELSE /\ OfType(recs, "security") = 1
                /\ \A k \in 1..Len(recs) :
                      recs[k].type = "security" =>
                          recs[k].severity =
                              (IF AnyHigh(res.anomalies) THEN "high" ELSE "medium")
                /\ \A i \in 1..Len(ResourceIds) :
                      ForResource(recs, ResourceIds[i]) =
                          (IF HasHigh(res.anomalies, ResourceIds[i]) THEN 1 ELSE 0)
                /\ OfType(recs, "cost") = (IF res.summary.total_anomalies > 5 THEN 1 ELSE 0)
                /\ Len(recs) = OfType(recs, "security") + OfType(recs, "cost")
                               + OfType(recs, "resource_specific")

\* more than 5 anomalies, on two resources of which only one has a high one
C16_Witness ==
    /\ anomOut # <<>>
    /\ calls # <<>>
    /\ anomOut[1].result.status = "success"
    /\ anomOut[1].result.summary.total_anomalies > 5
    /\ anomOut[1].result.summary.total_resources_with_anomalies = 2
    /\ HasHigh(anomOut[1].result.anomalies, "vm-a")
    /\ ~HasHigh(anomOut[1].result.anomalies, "web-b")

-----------------------------------------------------------------------------
(* Properties of analyze_costs and generate_cost_recommendations *)

CostAnalysed == cost_analysis # <<>> /\ cost_analysis[1].status = "success"

\* how severe a level is
LevelRank(level) ==
    CASE level = "critical" -> 2 [] level = "warning" -> 1 [] OTHER -> 0

\* C17: in a successful analyze_costs result cost_status is critical exactly
\* when total_cost exceeds the critical threshold, warning exactly when it
\* exceeds the warning but not the critical threshold, and normal otherwise;
\* projection_warning is present only when the monthly projection exceeds a
\* threshold that total_cost does not exceed, and is then strictly more
\* severe than cost_status
C17_CostStatusAndProjection ==
    CostAnalysed =>
        LET a == cost_analysis[1]
        IN /\ a.cost_status = "critical" <=> a.total_cost > cost_threshold_critical
           /\ a.cost_status = "warning" <=> (/\ a.total_cost > cost_threshold_warning
                                             /\ ~(a.total_cost > cost_threshold_critical))
           /\ a.cost_status \in {"critical", "warning", "normal"}
           /\ a.projection_warning # <<>> =>
                 /\ a.monthly_projection # <<>>
                 /\ \E threshold \in {cost_threshold_warning, cost_threshold_critical} :
                       /\ a.monthly_projection[1].cost.num
                             > threshold * a.monthly_projection[1].cost.den
                       /\ ~(a.total_cost > threshold)
                 /\ LevelRank(a.projection_warning[1]) > LevelRank(a.cost_status)

\* the cost is above the warning threshold and the projection above the
\* critical one
C17_Witness ==
    /\ CostAnalysed
    /\ cost_analysis[1].cost_status = "warning"
    /\ cost_analysis[1].projection_warning = <<"critical">>

\* generate_cost_recommendations was called on a successful analysis
CostRecsCalled == CostAnalysed /\ costRecsOut # <<>>

\* C18: for every successful cost analysis generate_cost_recommendations
\* returns at least one recommendation; the general fallback is returned
\* exactly when no status alert, resource-specific, region or projection
\* recommendation was produced, and is then the only element
C18_FallbackOnlyWhenNothingElse ==
    CostRecsCalled =>
        LET recs == costRecsOut[1].recommendations
            others == OfType(recs, "cost") + OfType(recs, "resource_specific")
                      + OfType(recs, "region") + OfType(recs, "projection")
        IN /\ costRecsOut[1].raised = <<>>
           /\ Len(recs) >= 1
           /\ cost_analysis[1].cost_status # "normal" => OfType(recs, "cost") = 1
           /\ OfType(recs, "general") = (IF others = 0 THEN 1 ELSE 0)
           /\ Len(recs) = others + OfType(recs, "general")

\* the three highest-cost resources: the head of the list that the call
\* left sorted by descending cost
TopThree == SubSeq(cost_analysis[1].resources, 1, Min(3, Len(cost_analysis[1].resources)))

\* C19: generate_cost_recommendations emits at most three resource-specific
\* recommendations, each for one of the three highest-cost resources with a
\* percentage_of_total of at least 15, and every such resource receives one,
\* whatever its resource type
C19_TopThreeResources ==
    (CostRecsCalled /\ costRecsOut[1].raised = <<>>) =>
        LET recs == costRecsOut[1].recommendations
        IN /\ OfType(recs, "resource_specific") <= 3
           /\ \A k \in 1..Len(recs) :
                 recs[k].type = "resource_specific" =>
                     \E i \in 1..Len(TopThree) :
                         /\ recs[k].resource_id = <<TopThree[i].resource_id>>
                         /\ TopThree[i].percentage_of_total.num
                               >= 15 * TopThree[i].percentage_of_total.den
           /\ \A i \in 1..Len(TopThree) :
                 TopThree[i].percentage_of_total.num
                       >= 15 * TopThree[i].percentage_of_total.den
                     => ForResource(recs, TopThree[i].resource_id) = 1

-----------------------------------------------------------------------------
(* Properties of _generate_combined_recommendations *)

CombinedCalled == calls # <<>> /\ calls[1].op = "generate_combined_recommendations"

\* the security and cost alerts among the recommendations the step built
CombinedAlerts == SelectSeq(calls[1].result.recommendations,
                            LAMBDA rec : rec.type = "security_cost")

\* more than 3 anomalies were detected and the cost is elevated
ManyAnomaliesAtElevatedCost ==
    /\ dataset # <<>>
    /\ detect_anomalies(dataset, detection_config, now).status = "success"
    /\ detect_anomalies(dataset, detection_config, now).summary.total_anomalies > 3
    /\ analyze_costs(pricing, dataset).status = "success"
    /\ analyze_costs(pricing, dataset).cost_status \in {"warning", "critical"}

HighCount == detect_anomalies(dataset, detection_config, now).summary.severity_counts.high

-----------------------------------------------------------------------------
(* Properties of project_costs *)

ProjectCalled == calls # <<>> /\ calls[1].op = "project_costs"

RECURSIVE IntPower(_, _)
IntPower(b, n) == IF n = 0 THEN 1 ELSE b * IntPower(b, n - 1)

\* base * (1 + trend_factor/100)^(m - 1)
CompoundedCost(base, trend_factor, m) ==
    LET q == Frac(100 + trend_factor, 100)
    IN Frac(base.num * IntPower(q.num, m - 1), base.den * IntPower(q.den, m - 1))

\* the sum of the costs of the months 1..m
RECURSIVE CostUpTo(_, _)
CostUpTo(projections, m) ==
    IF m = 0 THEN Frac(0, 1)
    ELSE FracPlus(CostUpTo(projections, m - 1), projections[m].cost)

\* C21: for a successful analysis project_costs returns one entry per month
\* 1..projection_months, month m costing base_monthly_cost times
\* (1 + trend_factor/100)^(m - 1), each cumulative_cost being the sum of the
\* month costs so far and total_projected_cost the last cumulative_cost
\* (projection_months times the base when trend_factor is 0); for an analysis
\* that is not a success it returns status error and no projections
C21_ProjectionCompounds ==
    ProjectCalled =>
        LET result == calls[1].result
            months == calls[1].projection_months
            trend == calls[1].trend_factor
        IN IF cost_analysis[1].status = "success"
           THEN /\ result.status = "success"
                /\ Len(result.monthly_projections) = months
                /\ \A m \in 1..months :
                      /\ result.monthly_projections[m].month = m
                      /\ result.monthly_projections[m].cost =
                             CompoundedCost(result.base_monthly_cost, trend, m)
                      /\ result.monthly_projections[m].cumulative_cost =
                             CostUpTo(result.monthly_projections, m)
                /\ result.total_projected_cost =
                       (IF months = 0 THEN Frac(0, 1)
                        ELSE result.monthly_projections[months].cumulative_cost)
                /\ trend = 0 =>
                       result.total_projected_cost =
                           Frac(months * result.base_monthly_cost.num,
                                result.base_monthly_cost.den)
           ELSE /\ result.status = "error"
                /\ "monthly_projections" \notin DOMAIN result

\* three months were projected at a rising trend from a base cost above 0
C21_Witness ==
    /\ ProjectCalled
    /\ calls[1].result.status = "success"
    /\ calls[1].trend_factor = 100
    /\ Len(calls[1].result.monthly_projections) = 3
    /\ calls[1].result.base_monthly_cost.num > 0
    /\ calls[1].result.monthly_projections[3].cost # calls[1].result.base_monthly_cost

-----------------------------------------------------------------------------
(* Properties of the day-over-day and week-over-week changes *)

\* the per-timestamp totals of the egress rows of the dataset
Totals == OverallByTime(EgressRows(dataset))

TrendSucceeded ==
    /\ calls # <<>>
    /\ calls[1].op = "analyze_overall_trend"
    /\ calls[1].result.status = "success"

DayOverDayAsReported ==
    Len(Totals) >= 2 =>
        calls[1].result.day_over_day_percent =
            Some(PercentChange(Totals[Len(Totals)], Totals[Len(Totals) - 1]))

\* C22 as stated: week_over_week_percent is reported exactly from 7
\* aggregated timepoints on and compares the latest value with the value 7
\* aggregated points before it (which exists from 8 timepoints on);
\* day_over_day_percent compares the last two aggregated values
C22_WeekOverWeekSevenPointsBack ==
    TrendSucceeded =>
        /\ (calls[1].result.week_over_week_percent # <<>>) <=> (Len(Totals) >= 7)
        /\ Len(Totals) >= 8 =>
               calls[1].result.week_over_week_percent =
                   Some(PercentChange(Totals[Len(Totals)], Totals[Len(Totals) - 7]))
        /\ DayOverDayAsReported

\* C22 amended: week_over_week_percent is reported exactly from 7 aggregated
\* timepoints on and compares the latest value with the seventh-latest one,
\* 6 aggregated points before it (0 when that value is 0);
\* day_over_day_percent compares the last two aggregated values
C22_WeekOverWeekSeventhLatest ==
    TrendSucceeded =>
        /\ (calls[1].result.week_over_week_percent # <<>>) <=> (Len(Totals) >= 7)
        /\ Len(Totals) >= 7 =>
               calls[1].result.week_over_week_percent =
                   Some(PercentChange(Totals[Len(Totals)], Totals[Len(Totals) - 6]))
        /\ DayOverDayAsReported

\* eight timepoints whose seventh-latest and eighth-latest values give
\* different changes
C22_Witness ==
    /\ TrendSucceeded
    /\ Len(Totals) = 8
    /\ calls[1].result.week_over_week_percent # <<>>
    /\ PercentChange(Totals[8], Totals[2]) # PercentChange(Totals[8], Totals[1])

-----------------------------------------------------------------------------
(* Properties of MetricsStorage *)

\* every store_metrics call so far let the storage generate the id
AllGenerated == \A i \in 1..Len(storeOut) : storeOut[i].generated

\* C23: after n store_metrics calls with generated ids,
\* list_available_collections(max_results = k) returns min(n, k) entries
\* with pairwise distinct ids, newest first, and no call has overwritten the
\* collection of an earlier call
C23_EveryStoreKeepsItsCollection ==
    (listOut # <<>> /\ AllGenerated) =>
        LET n == Len(storeOut)
            collections == listOut[1].collections
        IN /\ Len(collections) = Min(n, listOut[1].max_results)
           /\ \A i, j \in 1..Len(collections) :
                  i # j => collections[i].id # collections[j].id
           /\ \A i \in 1..Len(collections) : collections[i].id = storeOut[n - i + 1].id
           /\ \A i \in 1..n :
                  \E f \in raw_path : f.id = storeOut[i].id /\ f.data = storeOut[i].data

-----------------------------------------------------------------------------
(* Properties of batch_list_generator *)

\* the items of the pages that the first n calls returned, in page order
RECURSIVE ItemsOfPages(_)
ItemsOfPages(n) ==
    IF n = 0 THEN <<>>
    ELSE ItemsOfPages(n - 1)
         \o (IF pages[n].raises THEN <<>> ELSE PageItems(n, pages[n].size))

\* a call that ends the run: it raises or its page carries no token
LastCall(k) == pages[k].raises \/ pages[k].continuation_token = <<>>

\* what has been yielded and what is left of the current page are the items of
\* the pages fetched, in page order; the first call passes no skip_token and
\* every later call the token of the page before it; no call follows a call
\* that raised or a page without a token; and the generator is finished
\* exactly after such a call, with every item yielded
BatchInOrder ==
    /\ yielded \o page = ItemsOfPages(Len(fnCalls))
    /\ \A k \in 1..Len(fnCalls) :
          /\ fnCalls[k].top = 100
          /\ fnCalls[k].skip_token = (IF k = 1 THEN <<>> ELSE pages[k - 1].continuation_token)
          /\ k > 1 => ~LastCall(k - 1)
    /\ batchPc = "done" =>
          /\ fnCalls # <<>>
          /\ LastCall(Len(fnCalls))
          /\ yielded = ItemsOfPages(Len(fnCalls))

\* C24: batch_list_generator yields every item of every page in page order,
\* calls the collection function once per page with the token of the page
\* before as skip_token, stops after the first page without a token or the
\* first call that raises, and terminates whenever some page has no token
C24_PagesInOrderUntilLastPage ==
    /\ []BatchInOrder
    /\ (\E k \in 1..Len(pages) : LastCall(k)) ~> (batchPc = "done")

\* three pages of two items were fetched, the third without a token, and
\* the generator is finished
C24_Witness ==
    /\ batchPc = "done"
    /\ Len(fnCalls) = 3
    /\ Len(yielded) = 6
    /\ fnCalls[3].skip_token = <<"token2">>
    /\ ~pages[3].raises

-----------------------------------------------------------------------------
(* generate_cost_recommendations on every successful analysis *)

\* C25: generate_cost_recommendations returns a list without raising for
\* every result of analyze_costs with status success, also when total_cost
\* is 0 and by_region holds two or more regions
C25_CostRecommendationsNeverRaise ==
    CostRecsCalled => costRecsOut[1].raised = <<>>

-----------------------------------------------------------------------------
(* The order of the list returned by _prioritize_recommendations *)

\* the (severity weight, confidence) priority of a is at least that of b
PriorityAtLeast(a, b) ==
    \/ SeverityWeight(a.severity) > SeverityWeight(b.severity)
    \/ /\ SeverityWeight(a.severity) = SeverityWeight(b.severity)
       /\ a.confidence >= b.confidence

\* the recommendations of the argument that are not returned
DroppedRecs == {recIn[i] : i \in 1..Len(recIn)} \ {recOut[i] : i \in 1..Len(recOut)}

\* C26: the list returned by _prioritize_recommendations is ordered by
\* descending severity weight and, within equal weight, by descending
\* confidence; and every returned recommendation has a priority at least as
\* high as any recommendation of its type that was dropped, by the per-type
\* cap or by the overall limit
C26_OrderedAndBestOfType ==
    recPc = "done" =>
        /\ \A i, j \in 1..Len(recOut) : i < j => PriorityAtLeast(recOut[i], recOut[j])
        /\ \A d \in DroppedRecs : \A k \in 1..Len(recOut) :
              recOut[k].type = d.type => PriorityAtLeast(recOut[k], d)

\* the per-type cap dropped a recommendation whose priority is above that of
\* a returned recommendation of another type, while the overall limit
\* dropped nothing
C26_Witness ==
    /\ recPc = "done"
    /\ Len(recOut) < max_recommendations
    /\ \E d \in DroppedRecs :
          /\ \E k \in 1..Len(recOut) :
                recOut[k].type = d.type /\ ~PriorityAtLeast(d, recOut[k])
          /\ \E k \in 1..Len(recOut) :
                recOut[k].type # d.type /\ ~PriorityAtLeast(recOut[k], d)

-----------------------------------------------------------------------------
(* Properties of the result of detect_anomalies *)

AnomaliesDetected == anomOut # <<>> /\ anomOut[1].result.status = "success"

\* the number of anomalies flagged before deduplication
FlaggedCount ==
    Len(anomOut[1].zscore_anomalies) + Len(anomOut[1].mad_anomalies)
    + Len(anomOut[1].moving_avg_anomalies)

\* C27: in a successful detect_anomalies result the anomalies are in
\* non-increasing |score| order and deduplicated, total_anomalies is their
\* number, the high, medium and low counts sum to it, and the lists of
\* by_resource partition the anomalies by resource_id
C27_ResultIsConsistent ==
    AnomaliesDetected =>
        LET result == anomOut[1].result
            anomalies == result.anomalies
            by_resource == result.by_resource
        IN /\ \A i, j \in 1..Len(anomalies) :
                  i < j => /\ ~AbsGreater(anomalies[j].score, anomalies[i].score)
                           /\ AnomalyKey(anomalies[i]) # AnomalyKey(anomalies[j])
           /\ result.summary.total_anomalies = Len(anomalies)
           /\ result.summary.severity_counts.high + result.summary.severity_counts.medium
              + result.summary.severity_counts.low = Len(anomalies)
           /\ \A i, j \in 1..Len(by_resource) :
                  i # j => by_resource[i].resource_id # by_resource[j].resource_id
           /\ \A k \in 1..Len(by_resource) :
                  /\ by_resource[k].anomalies # <<>>
                  /\ by_resource[k].anomalies =
                         SelectSeq(anomalies,
                                   LAMBDA a : a.resource_id = by_resource[k].resource_id)
           /\ \A i \in 1..Len(anomalies) :
                  \E k \in 1..Len(by_resource) :
                      by_resource[k].resource_id = anomalies[i].resource_id
           /\ result.summary.total_resources_with_anomalies = Len(by_resource)

\* anomalies of two resources and of two severities were returned after
\* deduplication removed a second report of the same row
C27_Witness ==
    /\ AnomaliesDetected
    /\ Len(anomOut[1].result.by_resource) = 2
    /\ Len(anomOut[1].result.anomalies) >= 3
    /\ FlaggedCount > Len(anomOut[1].result.anomalies)
    /\ Cardinality(SeveritiesIn(anomOut[1].result.anomalies)) >= 2

\* the number of returned anomalies tagged with an algorithm
TaggedWith(algorithm) ==
    Len(SelectSeq(anomOut[1].result.anomalies, LAMBDA a : a.algorithm = algorithm))

\* C28: in a successful detect_anomalies result each of the counts of
\* algorithm_counts is the number of returned anomalies tagged with that
\* algorithm, so that the three counts sum to total_anomalies
C28_AlgorithmCountsDescribeResult ==
    AnomaliesDetected =>
        LET counts == anomOut[1].result.summary.algorithm_counts
        IN /\ counts.zscore = TaggedWith("zscore")
           /\ counts.mad = TaggedWith("mad")
           /\ counts.moving_average = TaggedWith("moving_average")
           /\ counts.zscore + counts.mad + counts.moving_average
                  = anomOut[1].result.summary.total_anomalies

-----------------------------------------------------------------------------
(* The rising-projection recommendation *)

\* C29: the rising-projection recommendation of
\* generate_cost_recommendations is emitted exactly when total_cost > 0 and
\* the time span of the dataset satisfies 0 < time_period_days < 30/1.3,
\* whatever the values inside the span
C29_ProjectionFollowsTimeSpan ==
    CostRecsCalled =>
        LET recs == costRecsOut[1].recommendations
            days == cost_analysis[1].time_period_days
        IN OfType(recs, "projection") =
               (IF cost_analysis[1].total_cost > 0 /\ 0 < days /\ 13 * days < 300
                THEN 1 ELSE 0)

\* the recommendation was emitted for a span of 23 days in which the egress
\* fell to 0
C29_Witness ==
    /\ CostRecsCalled
    /\ OfType(costRecsOut[1].recommendations, "projection") = 1
    /\ cost_analysis[1].time_period_days = 23
    /\ dataset[Len(dataset)].value = 0
    /\ dataset[1].value > 0

-----------------------------------------------------------------------------
(* The envelope of generate_recommendations and its list *)

\* C30: whenever generate_recommendations returns for a non-empty dataset,
\* status is success exactly when the list is non-empty and
\* no_recommendations otherwise (as for a dataset without egress rows, for
\* which the three sources flags are false), count is the length of the
\* list, and categories maps each type to the number of returned
\* recommendations of that type
C30_EnvelopeAgreesWithList ==
    EngineReturned =>
        LET result == engOut[1].result[1]
            recs == result.recommendations
            categories == result.categories
        IN /\ result.status = (IF recs # <<>> THEN "success" ELSE "no_recommendations")
           /\ result.count = Len(recs)
           /\ {categories[k].type : k \in 1..Len(categories)}
                  = {recs[i].type : i \in 1..Len(recs)}
           /\ \A j, k \in 1..Len(categories) :
                  j # k => categories[j].type # categories[k].type
           /\ \A k \in 1..Len(categories) :
                  categories[k].count = OfType(recs, categories[k].type)
           /\ EgressRows(dataset) = <<>> =>
                  /\ result.status = "no_recommendations"
                  /\ result.sources = [trends |-> FALSE, costs |-> FALSE, anomalies |-> FALSE]

\* a list of at least three recommendations of two types was returned
C30_Witness ==
    /\ EngineReturned
    /\ engOut[1].result[1].status = "success"
    /\ Len(engOut[1].result[1].categories) >= 2
    /\ engOut[1].result[1].count >= 3

====
